---- MODULE Spec2Model ----
(***************************************************************************)
(* Answer resolution and session advance of the adaptive quiz backend.     *)
(*                                                                         *)
(* The store (DynamoDB) holds the wrong-answers table, the progress table  *)
(* and the sessions table.  Every call on the store is a suspension point, *)
(* so AdaptiveLearningService.process_answer is split into one action per  *)
(* store call and several calls may be in flight at once.                  *)
(*                                                                         *)
(* adaptive_learning_service.py uses boto3's Key and Attr without          *)
(* importing them and dynamodb_client.py forwards the placeholder names    *)
(* to Table.update_item as expression_attribute_names; the model takes     *)
(* each query and update expression to reach the store as written (the     *)
(* unit tests replace these methods), with #prog and #ver denoting the     *)
(* attributes progress and version.                                        *)
(*                                                                         *)
(* The session item is the one create_session stores: its progress lives   *)
(* in the attribute progress, and it has no top-level currentQuestion,     *)
(* answeredQuestions, correctAnswers or totalQuestions.  SpecSelect alone  *)
(* also starts from an item of the layout get_next_question reads (the     *)
(* layout of the service's test fixture), since with the stored layout     *)
(* get_next_question returns before it selects anything.                   *)
(*                                                                         *)
(* The specifications share the variables: Spec (a submitted answer: the   *)
(* handler's input check, then process_answer), SpecService                *)
(* (SessionStateService status operations and expiry), SpecSelect          *)
(* (get_next_question between process_answer calls) and SpecRequest (the   *)
(* next-question handlers).  SpecMastery is Spec started with one entry in  *)
(* the wrong pool, and SpecFinish runs submitted answers next to           *)
(* complete_session on an active session.  SpecCreate, SpecQuery,          *)
(* SpecOwnership, SpecRepetition, SpecDifficulty and SpecBackoff each      *)
(* apply one operation (create_session, get_wrong_answers_sorted, a call   *)
(* keyed by session and user, _apply_spaced_repetition,                    *)
(* _calculate_target_difficulty, exponential_backoff_retry) to inputs      *)
(* drawn from bounded sets, and SpecBreaker is one CircuitBreaker under a  *)
(* sequence of calls.  The                                                 *)
(* update expressions SessionStateService builds are likewise taken to be  *)
(* applied by the store as written: SET of the given status, version + 1,  *)
(* under the condition version = expected.                                 *)
(***************************************************************************)
EXTENDS Integers, Sequences, FiniteSets, TLC

\* ----------------------------------------------------------------- bounds
\* number of process_answer calls started in one behaviour
MaxCalls == 2
\* largest value of the logical clock behind datetime.now()
MaxClock == 1

\* concurrent request handlers (Lambda invocations)
Procs == {1, 2}

\* Python None, for a string and for a dict/object
None == "None"
NoItem == [none |-> TRUE]

\* ------------------------------------------------------ program constants
mastery_required_correct == 2

\* ---------------------------------------------------------------- catalog
\* questions table: q1 and q2 are in the session's pool, q3 is in the
\* catalog only, qx is in neither
CatalogIds == {"q1", "q2", "q3"}
QuestionIds == CatalogIds \cup {"qx"}

correctAnswers(question_id) ==
    CASE question_id = "q1" -> <<"a">>
      [] question_id = "q2" -> <<"a", "b">>
      [] OTHER -> <<"a">>

\* selectedAnswers lists a request may carry
SelectedInputs == {<<>>, <<"a">>, <<"b", "a">>, <<"a", "a">>}

USER == "u1"
SESSION == "s1"

\* set(list)
ToSet(list) == {list[i] : i \in 1..Len(list)}

_get_question_Any(question_id) ==
    [questionId |-> question_id, correctAnswers |-> correctAnswers(question_id)]

\* AdaptiveLearningService._get_question
_get_question(question_id) ==
    IF question_id \in CatalogIds
    THEN [questionId |-> question_id, correctAnswers |-> correctAnswers(question_id)]
    ELSE NoItem

validate_selected_answers_Any(selected_answers) == TRUE

\* utils.error_handler.validate_selected_answers: at least one answer and at
\* most ten, otherwise ValidationError
validate_selected_answers(selected_answers) ==
    /\ Len(selected_answers) # 0
    /\ Len(selected_answers) <= 10

_validate_answer_Subset(question, selected_answers) ==
    ToSet(selected_answers) \subseteq ToSet(question.correctAnswers)

\* AdaptiveLearningService._validate_answer
_validate_answer(question, selected_answers) ==
    ToSet(question.correctAnswers) = ToSet(selected_answers)

\* dict.get(name, default) on a stored item
ItemGet(item, name, default) ==
    IF name \in DOMAIN item THEN item[name] ELSE default

\* ------------------------------------------------------------ wrong pool
\* the wrong-answers table of USER: a set of items, key = timestamp
Active(pool, question_id) ==
    {e \in pool : e.questionId = question_id /\ e.remainingTries > 0}

Keys(pool) == {e.timestamp : e \in pool}

\* Table.put_item: replaces the item that has the same key
PutItem(pool, item) ==
    {e \in pool : e.timestamp # item.timestamp} \cup {item}

\* Table.delete_item
DeleteItem(pool, timestamp) == {e \in pool : e.timestamp # timestamp}

\* the item with one correct answer required instead of two
WrongAnswerItem_OneTry(question_id, session_id, timestamp) ==
    [timestamp |-> timestamp,
     questionId |-> question_id,
     sessionId |-> session_id,
     remainingTries |-> mastery_required_correct - 1,
     lastAttemptAt |-> timestamp,
     attempts |-> <<[timestamp |-> timestamp, correct |-> FALSE]>>,
     shuffledAnswers |-> <<>>]

\* the item _add_to_wrong_pool builds; shuffledAnswers is absent from it,
\* which _prepare_wrong_pool_question treats like an empty list
WrongAnswerItem(question_id, session_id, timestamp) ==
    [timestamp |-> timestamp,
     questionId |-> question_id,
     sessionId |-> session_id,
     remainingTries |-> mastery_required_correct,
     lastAttemptAt |-> timestamp,
     attempts |-> <<[timestamp |-> timestamp, correct |-> FALSE]>>,
     shuffledAnswers |-> <<>>]

\* AdaptiveLearningService._add_to_wrong_pool
_add_to_wrong_pool(pool, question_id, session_id, timestamp) ==
    PutItem(pool, WrongAnswerItem(question_id, session_id, timestamp))

\* AdaptiveLearningService._update_wrong_answer_tries: update_item on the key;
\* DynamoDB creates the item when the key is absent (its other attributes
\* are then missing, written None here)
_update_wrong_answer_tries(pool, timestamp, remaining_tries, t) ==
    IF timestamp \in Keys(pool)
    THEN {IF e.timestamp = timestamp
          THEN [e EXCEPT !.remainingTries = remaining_tries, !.lastAttemptAt = t]
          ELSE e : e \in pool}
    ELSE pool \cup {[timestamp |-> timestamp, questionId |-> None,
                     sessionId |-> None, remainingTries |-> remaining_tries,
                     lastAttemptAt |-> t, attempts |-> <<>>,
                     shuffledAnswers |-> <<>>]}

\* AdaptiveLearningService._reset_wrong_answer_tries
_reset_wrong_answer_tries(pool, timestamp, t) ==
    _update_wrong_answer_tries(pool, timestamp, mastery_required_correct, t)

\* AdaptiveLearningService._remove_from_wrong_pool
_remove_from_wrong_pool(pool, timestamp) == DeleteItem(pool, timestamp)

\* AdaptiveLearningService._get_wrong_answer_record: both paths of the
\* method return None, whatever the table holds
_get_wrong_answer_record(pool, question_id) == NoItem

\* ---------------------------------------------------------- store client
ThrottlingCodes == {"ProvisionedThroughputExceededException", "ThrottlingException"}

\* OptimizedDynamoDBClient.exponential_backoff_retry over the outcomes of the
\* successive invocations of the operation ("OK" or a ClientError code)
RECURSIVE BackoffLoop(_, _, _)
BackoffLoop(outcomes, attempt, max_retries) ==
    IF attempt > max_retries
    THEN [raised |-> "DynamoDBError", invocations |-> attempt]
    ELSE LET o == outcomes[attempt + 1] IN
         IF o = "OK"
         THEN [raised |-> None, invocations |-> attempt + 1]
         ELSE IF o \in ThrottlingCodes
              THEN IF attempt = max_retries
                   THEN [raised |-> "DynamoDBError", invocations |-> attempt + 1]
                   ELSE BackoffLoop(outcomes, attempt + 1, max_retries)
              ELSE [raised |-> "DynamoDBError", invocations |-> attempt + 1]

exponential_backoff_retry(outcomes, max_retries) ==
    BackoffLoop(outcomes, 0, max_retries)

\* Table.update_item with ConditionExpression Attr('version').eq(expected);
\* the condition fails when the key holds no item
ConditionalCheck(item, expected_version) ==
    IF item # NoItem /\ item.version = expected_version
    THEN "OK"
    ELSE "ConditionalCheckFailedException"

\* OptimizedDynamoDBClient.conditional_update: the operation runs inside
\* exponential_backoff_retry, which turns every ClientError into
\* DynamoDBError, so the except ClientError clause of conditional_update
\* never sees ConditionalCheckFailedException
conditional_update(item, expected_version) ==
    LET r == exponential_backoff_retry(<<ConditionalCheck(item, expected_version)>>, 3)
    IN  IF r.raised = None
        THEN [value |-> TRUE, raised |-> None]
        ELSE [value |-> FALSE, raised |-> r.raised]

\* OptimizedDynamoDBClient.update_session_progress_atomic: the outcome of
\* the call (the store effect is in SessionWrite)
update_session_progress_atomic(item, expected_version) ==
    LET r == conditional_update(item, expected_version)
    IN  IF r.raised = "OptimisticLockError"
        THEN [value |-> FALSE, raised |-> None]
        ELSE r

\* an update that stores the progress and leaves the version alone
SessionAfterUpdate_NoVersion(item, progress_update) ==
    [item EXCEPT !.progress = progress_update]

\* the item after 'SET #prog = :progress, #ver = #ver + :inc'
SessionAfterUpdate(item, progress_update) ==
    [item EXCEPT !.progress = progress_update, !.version = @ + 1]

\* ---------------------------------------------------------------- session
\* SessionStateService._session_to_dynamodb_item applied to the state that
\* create_session builds
CreatedSessionItem ==
    [sessionId |-> SESSION,
     userId |-> USER,
     status |-> "CREATED",
     questionPool |-> <<"q1", "q2">>,
     version |-> 0,
     progress |-> [current_question |-> 0,
                   answered_questions |-> <<>>,
                   correct_answers |-> 0,
                   wrong_answers |-> 0,
                   time_spent |-> 0]]

\* a session item of the layout AdaptiveLearningService reads and its unit
\* tests use (fixture mock_session): the cursor attributes at top level, no
\* progress map; here at the start of the session
FixtureSessionItem ==
    [sessionId |-> SESSION,
     userId |-> USER,
     status |-> "ACTIVE",
     questionPool |-> <<"q1", "q2">>,
     answeredQuestions |-> <<>>,
     currentQuestion |-> 0,
     totalQuestions |-> Len(<<"q1", "q2">>),
     correctAnswers |-> 0,
     version |-> 0,
     progress |-> NoItem]

SessionItems == {CreatedSessionItem, FixtureSessionItem}

\* the stored progress map, under the key names of whoever wrote it last
\* (SessionProgress fields after create_session, the keys of
\* progress_update after an advance); the top-level attributes of an item
\* that has no progress map
Cursor(item) ==
    IF item.progress = NoItem
    THEN ItemGet(item, "currentQuestion", 0)
    ELSE IF "currentQuestion" \in DOMAIN item.progress
    THEN item.progress.currentQuestion
    ELSE item.progress.current_question

AnsweredIds(item) ==
    IF item.progress = NoItem
    THEN ItemGet(item, "answeredQuestions", <<>>)
    ELSE IF "answeredQuestions" \in DOMAIN item.progress
    THEN item.progress.answeredQuestions
    ELSE item.progress.answered_questions

CorrectCount(item) ==
    IF item.progress = NoItem
    THEN ItemGet(item, "correctAnswers", 0)
    ELSE IF "correctAnswers" \in DOMAIN item.progress
    THEN item.progress.correctAnswers
    ELSE item.progress.correct_answers

\* an update that records only questions of the session's pool as answered
ProgressUpdate_PoolOnly(item, question_id, correct) ==
    [answeredQuestions |->
        IF question_id \in ToSet(ItemGet(item, "questionPool", <<>>))
        THEN Append(ItemGet(item, "answeredQuestions", <<>>), question_id)
        ELSE ItemGet(item, "answeredQuestions", <<>>),
     currentQuestion |-> ItemGet(item, "currentQuestion", 0) + 1,
     correctAnswers |-> ItemGet(item, "correctAnswers", 0) + (IF correct THEN 1 ELSE 0)]

\* progress_update of AdaptiveLearningService._update_session_progress,
\* computed from the item _get_session returned
ProgressUpdate(item, question_id, correct) ==
    [answeredQuestions |-> Append(ItemGet(item, "answeredQuestions", <<>>), question_id),
     currentQuestion |-> ItemGet(item, "currentQuestion", 0) + 1,
     correctAnswers |-> ItemGet(item, "correctAnswers", 0) + (IF correct THEN 1 ELSE 0)]

\* a dispatch that advances the session after a wrong answer too
AfterPoolStep_AlwaysAdvance(is_correct) == "session_get"

\* process_answer: which handler takes the graded answer on
\* (_handle_correct_answer advances the session, _handle_wrong_answer
\* does not)
AfterPoolStep(is_correct) ==
    IF is_correct THEN "session_get" ELSE "calc_progress"

\* ------------------------------------------------------------------ state
VARIABLES
    doneCount,      \* question id -> number of process_answer calls that returned
    fx,             \* input and output of the operation a single-operation check applies
    now,            \* the clock datetime.now() reads
    wrongPool,      \* wrong-answers table (items of USER)
    progressTable,  \* progress table: question id -> item or None
    session,        \* the item of SESSION in the sessions table
    pc,             \* position of each handler inside process_answer
    args,           \* (question_id, selected_answers) of the current/last call
    loc,            \* local variables of the call in flight
    result,         \* what the call returned or raised
    calls,          \* number of calls started
    nextCount,      \* number of NEXT_QUESTION results returned to callers
    advances,       \* number of conditional writes the store accepted
    prev,           \* bookkeeping of the previous call of each handler
    expired,        \* datetime.now() has passed the session's expires_at
    stk,            \* call stack of each SessionStateService caller
    sres,           \* operation and outcome of each caller's last call
    supd,           \* record of each caller's last finished atomic update
    sops,           \* number of SessionStateService operations started
    wrong_pool_selection_percentage,  \* the service's setting, in percent
    nq,             \* local variables of each get_next_question call
    shown,          \* answer orders presented for the wrong-pool entries
    servedCount,    \* regular-pool questions returned, per question
    completes,      \* some get_next_question call has returned None
    serves          \* number of get_next_question calls started

serviceVars == <<expired, stk, sres, supd, sops>>

selectVars == <<wrong_pool_selection_percentage, nq, shown, servedCount,
                completes, serves>>

ghostVars == <<doneCount, fx>>

\* everything but fx
programVars == <<doneCount, now, wrongPool, progressTable, session, pc, args,
                 loc, result, calls, nextCount, advances, prev, expired, stk,
                 sres, supd, sops, wrong_pool_selection_percentage, nq, shown,
                 servedCount, completes, serves>>

answerVars == <<doneCount, fx, now, wrongPool, progressTable, pc, args, loc, result,
                calls, nextCount, advances, prev,
                wrong_pool_selection_percentage, nq, shown, servedCount,
                completes, serves>>

vars == <<doneCount, fx, now, wrongPool, progressTable, session, pc, args, loc, result,
          calls, nextCount, advances, prev, expired, stk, sres, supd, sops,
          wrong_pool_selection_percentage, nq, shown, servedCount, completes,
          serves>>

NoLoc ==
    [is_correct |-> FALSE, existing |-> NoItem, current_version |-> 0,
     progress_update |-> NoItem, success |-> None, advanced |-> FALSE,
     hadActive |-> FALSE, added |-> -1, resubmit |-> FALSE, version0 |-> 0]

NoResult == [raised |-> None, correct |-> FALSE, next_action |-> None,
             question_id |-> None, current_question |-> 0, wrong_pool_size |-> 0]

NoPrev == [added |-> -1, advanced |-> FALSE]

\* line 80: wrong_pool_selection_percentage = 0.20
default_wrong_pool_percentage == 20

\* a QuestionResponse, or the None that means the session is complete
NoneResponse ==
    [kind |-> "None", question_id |-> None, answers |-> <<>>,
     is_from_wrong_pool |-> FALSE, timestamp |-> -1]

NoNq ==
    [session |-> NoItem, wrong_answer |-> NoItem, shuffled_answers |-> <<>>,
     out |-> NoneResponse, cursor0 |-> 0, total0 |-> 0, passed0 |-> {},
     active0 |-> FALSE]

\* the presentations that still belong to an entry: the entry exists and
\* keeps a stored order (put_item over the key drops shuffledAnswers)
StillShown(presentations, pool) ==
    {s \in presentations :
        \E e \in pool : /\ e.timestamp = s.timestamp
                        /\ e.questionId = s.question_id
                        /\ e.shuffledAnswers # <<>>}

\* what a SessionStateService call hands back: a SessionState ("state"), a
\* bool ("bool") or an exception ("raise"); stored and lapsed remember what
\* get_session read and whether it took its expiry branch
NoValue ==
    [kind |-> None, status |-> None, version |-> 0, stored |-> None,
     lapsed |-> FALSE, ok |-> FALSE, error |-> None, cursor |-> 0,
     code |-> None, question_id |-> None]

StateValue(status, version, stored, lapsed) ==
    [NoValue EXCEPT !.kind = "state", !.status = status, !.version = version,
                    !.stored = stored, !.lapsed = lapsed, !.ok = TRUE]

BoolValue(b) == [NoValue EXCEPT !.kind = "bool", !.ok = b]

RaiseValue(e) == [NoValue EXCEPT !.kind = "raise", !.error = e]

\* the HTTP response of a request handler: its code, the status the handler
\* saw on the session and the question it served, if any
ResponseValue(code, status, question_id) ==
    [NoValue EXCEPT !.kind = "response", !.code = code, !.status = status,
                    !.question_id = question_id]

NoOutcome == [op |-> None, val |-> NoValue]

NoUpdate == [attempts |-> 0, conflicts |-> 0, outcome |-> None]

InitOthers ==
    /\ doneCount = [q \in QuestionIds |-> 0]
    /\ now = 0
    /\ wrongPool = {}
    /\ progressTable = [q \in QuestionIds |-> NoItem]
    /\ nq = [p \in Procs |-> NoNq]
    /\ shown = {}
    /\ servedCount = [q \in CatalogIds |-> 0]
    /\ completes = FALSE
    /\ serves = 0
    /\ pc = [p \in Procs |-> "idle"]
    /\ args = [p \in Procs |-> NoItem]
    /\ loc = [p \in Procs |-> NoLoc]
    /\ result = [p \in Procs |-> NoResult]
    /\ calls = 0
    /\ nextCount = 0
    /\ advances = 0
    /\ prev = [p \in Procs |-> NoPrev]
    /\ expired = FALSE
    /\ stk = [p \in Procs |-> <<>>]
    /\ sres = [p \in Procs |-> NoOutcome]
    /\ supd = [p \in Procs |-> NoUpdate]
    /\ sops = 0

Init ==
    /\ fx = NoItem
    /\ session = CreatedSessionItem
    /\ wrong_pool_selection_percentage = default_wrong_pool_percentage
    /\ InitOthers

\* time passes between any two steps
Tick ==
    /\ UNCHANGED ghostVars
    /\ UNCHANGED serviceVars
    /\ UNCHANGED selectVars
    /\ now < MaxClock
    /\ now' = now + 1
    /\ UNCHANGED <<wrongPool, progressTable, session, pc, args, loc, result,
                   calls, nextCount, advances, prev>>

\* the request as a handler passes it on: the handler's check of the selected
\* answers (quiz_handler.py lines 141-146, quiz.py lines 159-166), then
\* process_answer, lines 129-142: fetch the question, grade the answer
Begin(p, a, resubmit) ==
    /\ UNCHANGED ghostVars
    /\ UNCHANGED serviceVars
    /\ UNCHANGED selectVars
    /\ calls' = calls + 1
    /\ args' = [args EXCEPT ![p] = a]
    /\ LET question == _get_question(a.question_id) IN
       IF ~validate_selected_answers(a.selected_answers)
       THEN /\ result' = [result EXCEPT ![p] = [NoResult EXCEPT !.raised = "ValidationError"]]
            /\ loc' = [loc EXCEPT ![p] = [NoLoc EXCEPT !.resubmit = resubmit,
                                                       !.version0 = session.version]]
            /\ pc' = [pc EXCEPT ![p] = "done"]
       ELSE IF question = NoItem
       THEN /\ result' = [result EXCEPT ![p] = [NoResult EXCEPT !.raised = "AdaptiveLearningError"]]
            /\ loc' = [loc EXCEPT ![p] = [NoLoc EXCEPT !.resubmit = resubmit,
                                                       !.version0 = session.version]]
            /\ pc' = [pc EXCEPT ![p] = "done"]
       ELSE /\ result' = [result EXCEPT ![p] = NoResult]
            /\ loc' = [loc EXCEPT ![p] =
                          [NoLoc EXCEPT !.is_correct = _validate_answer(question, a.selected_answers),
                                        !.resubmit = resubmit,
                                        !.version0 = session.version]]
            /\ pc' = [pc EXCEPT ![p] = "progress_get"]
    /\ UNCHANGED <<now, wrongPool, progressTable, session, nextCount, advances, prev>>

\* a request arrives
Submit(p) ==
    /\ pc[p] = "idle"
    /\ calls < MaxCalls
    /\ \E q \in QuestionIds, sel \in SelectedInputs :
          Begin(p, [question_id |-> q, selected_answers |-> sel], FALSE)

\* the client sends its last request again (the response was lost)
Resubmit(p) ==
    /\ pc[p] = "idle"
    /\ calls < MaxCalls
    /\ args[p] # NoItem
    /\ Begin(p, args[p], TRUE)

\* _update_progress_tracking, lines 423-426: read the progress row
ProgressGet(p) ==
    /\ UNCHANGED ghostVars
    /\ UNCHANGED serviceVars
    /\ UNCHANGED selectVars
    /\ pc[p] = "progress_get"
    /\ loc' = [loc EXCEPT ![p].existing = progressTable[args[p].question_id]]
    /\ pc' = [pc EXCEPT ![p] = "progress_write"]
    /\ UNCHANGED <<now, wrongPool, progressTable, session, args, result,
                   calls, nextCount, advances, prev>>

\* the item _update_progress_tracking puts when it found no row
NewProgressItem(is_correct) ==
    [attempts |-> 1,
     correctAttempts |-> IF is_correct THEN 1 ELSE 0,
     incorrectAttempts |-> IF is_correct THEN 0 ELSE 1]

\* an update that counts the attempt and leaves both tallies alone
IncrementedProgressItem_AttemptsOnly(row, is_correct) ==
    [row EXCEPT !.attempts = @ + 1]

\* the row after 'SET attempts = attempts + :one, ...'
IncrementedProgressItem(row, is_correct) ==
    [attempts |-> row.attempts + 1,
     correctAttempts |-> row.correctAttempts + (IF is_correct THEN 1 ELSE 0),
     incorrectAttempts |-> row.incorrectAttempts + (IF is_correct THEN 0 ELSE 1)]

\* _update_progress_tracking, lines 428-462: update_item or put_item
ProgressWrite(p) ==
    /\ UNCHANGED ghostVars
    /\ UNCHANGED serviceVars
    /\ UNCHANGED selectVars
    /\ pc[p] = "progress_write"
    /\ LET q == args[p].question_id IN
       progressTable' =
          [progressTable EXCEPT ![q] =
              IF loc[p].existing # NoItem
              THEN IncrementedProgressItem(progressTable[q], loc[p].is_correct)
              ELSE NewProgressItem(loc[p].is_correct)]
    /\ pc' = [pc EXCEPT ![p] = "pool"]
    /\ UNCHANGED <<now, wrongPool, session, args, loc, result,
                   calls, nextCount, advances, prev>>

\* the wrong-pool part of _handle_correct_answer, lines 269-283
CorrectAnswerPool(pool, question_id, t) ==
    LET wrong_answer == _get_wrong_answer_record(pool, question_id) IN
    IF wrong_answer # NoItem
    THEN LET new_remaining == wrong_answer.remainingTries - 1 IN
         IF new_remaining > 0
         THEN _update_wrong_answer_tries(pool, wrong_answer.timestamp, new_remaining, t)
         ELSE _remove_from_wrong_pool(pool, wrong_answer.timestamp)
    ELSE pool

\* the wrong-pool part of _handle_wrong_answer, lines 303-310
WrongAnswerPool(pool, question_id, session_id, t) ==
    LET wrong_answer == _get_wrong_answer_record(pool, question_id) IN
    IF wrong_answer # NoItem
    THEN _reset_wrong_answer_tries(pool, wrong_answer.timestamp, t)
    ELSE _add_to_wrong_pool(pool, question_id, session_id, t)

\* _handle_correct_answer / _handle_wrong_answer: look the entry up and
\* mutate the wrong pool
PoolStep(p) ==
    /\ UNCHANGED ghostVars
    /\ UNCHANGED serviceVars
    /\ UNCHANGED <<wrong_pool_selection_percentage, nq, servedCount, completes,
                   serves>>
    /\ pc[p] = "pool"
    /\ LET q == args[p].question_id IN
       /\ wrongPool' = IF loc[p].is_correct
                       THEN CorrectAnswerPool(wrongPool, q, now)
                       ELSE WrongAnswerPool(wrongPool, q, SESSION, now)
       /\ loc' = [loc EXCEPT ![p].hadActive = (Active(wrongPool, q) # {}),
                             ![p].added = IF wrongPool' # wrongPool /\ now \notin Keys(wrongPool)
                                          THEN now ELSE -1]
    /\ pc' = [pc EXCEPT ![p] = AfterPoolStep(loc[p].is_correct)]
    /\ shown' = StillShown(shown, wrongPool')
    /\ UNCHANGED <<now, progressTable, session, args, result,
                   calls, nextCount, advances, prev>>

\* _update_session_progress, lines 468-476: read the session, build the update
SessionGet(p) ==
    /\ UNCHANGED ghostVars
    /\ UNCHANGED serviceVars
    /\ UNCHANGED selectVars
    /\ pc[p] = "session_get"
    /\ loc' = [loc EXCEPT ![p].current_version = ItemGet(session, "version", 0),
                          ![p].progress_update =
                              ProgressUpdate(session, args[p].question_id, loc[p].is_correct)]
    /\ pc' = [pc EXCEPT ![p] = "session_write"]
    /\ UNCHANGED <<now, wrongPool, progressTable, session, args, result,
                   calls, nextCount, advances, prev>>

\* _update_session_progress, lines 478-488: the conditional write; a False
\* result is logged and an exception is swallowed
SessionWrite(p) ==
    /\ UNCHANGED ghostVars
    /\ UNCHANGED serviceVars
    /\ UNCHANGED selectVars
    /\ pc[p] = "session_write"
    /\ LET r == update_session_progress_atomic(session, loc[p].current_version) IN
       /\ IF r.raised = None /\ r.value = TRUE
          THEN /\ session' = SessionAfterUpdate(session, loc[p].progress_update)
               /\ advances' = advances + 1
          ELSE UNCHANGED <<session, advances>>
    /\ loc' = [loc EXCEPT
          ![p].success = LET r == update_session_progress_atomic(session, loc[p].current_version)
                         IN  IF r.raised # None THEN r.raised
                             ELSE IF r.value THEN "True" ELSE "False",
          ![p].advanced = Cursor(session') > Cursor(session)]
    /\ pc' = [pc EXCEPT ![p] = "calc_progress"]
    /\ UNCHANGED <<now, wrongPool, progressTable, args, result,
                   calls, nextCount, prev>>

\* _calculate_progress, lines 490-523, and the AnswerResult of the handler
CalcProgress(p) ==
    /\ UNCHANGED ghostVars
    /\ UNCHANGED serviceVars
    /\ UNCHANGED selectVars
    /\ pc[p] = "calc_progress"
    /\ result' = [result EXCEPT ![p] =
          [raised |-> None,
           correct |-> loc[p].is_correct,
           next_action |-> IF loc[p].is_correct THEN "NEXT_QUESTION" ELSE "RETRY_SAME_QUESTION",
           question_id |-> IF loc[p].is_correct THEN None ELSE args[p].question_id,
           current_question |-> ItemGet(session, "currentQuestion", 0),
           wrong_pool_size |-> Cardinality({e \in wrongPool : e.remainingTries > 0})]]
    /\ pc' = [pc EXCEPT ![p] = "done"]
    /\ UNCHANGED <<now, wrongPool, progressTable, session, args, loc,
                   calls, nextCount, advances, prev>>

\* the call returns to its caller
Return(p) ==
    /\ UNCHANGED serviceVars
    /\ UNCHANGED selectVars
    /\ pc[p] = "done"
    /\ UNCHANGED fx
    /\ doneCount' = IF result[p].raised = None
                    THEN [doneCount EXCEPT ![args[p].question_id] = @ + 1]
                    ELSE doneCount
    /\ pc' = [pc EXCEPT ![p] = "idle"]
    /\ nextCount' = nextCount + (IF result[p].next_action = "NEXT_QUESTION" THEN 1 ELSE 0)
    /\ prev' = [prev EXCEPT ![p] = [added |-> loc[p].added,
                                    advanced |-> loc[p].advanced]]
    /\ loc' = [loc EXCEPT ![p] = NoLoc]
    /\ result' = [result EXCEPT ![p] = NoResult]
    /\ UNCHANGED <<now, wrongPool, progressTable, session, args,
                   calls, advances>>

Next ==
    \/ Tick
    \/ \E p \in Procs : Submit(p)
    \/ \E p \in Procs : Resubmit(p)
    \/ \E p \in Procs : ProgressGet(p)
    \/ \E p \in Procs : ProgressWrite(p)
    \/ \E p \in Procs : PoolStep(p)
    \/ \E p \in Procs : SessionGet(p)
    \/ \E p \in Procs : SessionWrite(p)
    \/ \E p \in Procs : CalcProgress(p)
    \/ \E p \in Procs : Return(p)

Spec == Init /\ [][Next]_vars

AllIdle == \A p \in Procs : pc[p] = "idle"

\* ------------------------------------------------------------------ claims
\* the question the call of p is about
Q(p) == args[p].question_id

\* p takes the step that looks the entry up and mutates the wrong pool
PoolStepOf(p) == pc[p] = "pool" /\ pc'[p] # "pool"

\* p takes a step of a call whose answer is graded incorrect
WrongCallStepOf(p) ==
    /\ pc'[p] # pc[p]
    /\ \/ pc[p] \in {"progress_get", "progress_write", "pool", "session_get",
                     "session_write", "calc_progress"} /\ ~loc[p].is_correct
       \/ pc[p] = "done" /\ result[p].next_action = "RETRY_SAME_QUESTION"
       \/ pc[p] = "idle" /\ pc'[p] = "progress_get" /\ ~loc'[p].is_correct

\* C1: for every question at most one wrong-pool entry of the user has
\* remainingTries > 0, whatever process_answer calls have run
C1_AtMostOneActiveEntry ==
    \A q \in CatalogIds : Cardinality(Active(wrongPool, q)) <= 1

\* C2: an incorrect answer to a question without active entry creates
\* exactly one entry for it, with remainingTries = mastery_required_correct,
\* and the call returns RETRY_SAME_QUESTION carrying the same question
C2_FirstMissAddsOneEntry ==
    /\ [][\A p \in Procs :
            (PoolStepOf(p) /\ ~loc[p].is_correct /\ Active(wrongPool, Q(p)) = {})
            => /\ Cardinality(Active(wrongPool', Q(p))) = 1
               /\ \A e \in Active(wrongPool', Q(p)) :
                     /\ e \notin wrongPool
                     /\ e.remainingTries = 2
               /\ Cardinality(wrongPool' \ wrongPool) = 1]_vars
    /\ [](\A p \in Procs :
            (pc[p] = "done" /\ result[p].raised = None /\ ~result[p].correct)
            => /\ result[p].next_action = "RETRY_SAME_QUESTION"
               /\ result[p].question_id = Q(p))

\* a first miss has been answered with a retry
C2_Witness ==
    \E p \in Procs :
        /\ pc[p] = "done"
        /\ result[p].next_action = "RETRY_SAME_QUESTION"
        /\ ~loc[p].hadActive
        /\ loc[p].added # -1
        /\ \E e \in wrongPool : e.timestamp = loc[p].added /\ e.questionId = Q(p)

\* C3: a correct answer to a question with an active entry of r remaining
\* tries leaves it with r - 1, evicts it when r - 1 = 0, and returns
\* NEXT_QUESTION
C3_CorrectAnswerDecrements ==
    /\ [][\A p \in Procs :
            (PoolStepOf(p) /\ loc[p].is_correct)
            => \A e \in Active(wrongPool, Q(p)) :
                  IF e.remainingTries - 1 = 0
                  THEN e.timestamp \notin Keys(wrongPool')
                  ELSE \E e2 \in wrongPool' :
                          /\ e2.timestamp = e.timestamp
                          /\ e2.remainingTries = e.remainingTries - 1]_vars
    /\ [](\A p \in Procs :
            (pc[p] = "done" /\ result[p].raised = None /\ result[p].correct)
            => result[p].next_action = "NEXT_QUESTION")

\* C4: an incorrect answer to a question with an active entry resets that
\* same entry to mastery_required_correct (no other entry is written) and
\* returns RETRY_SAME_QUESTION
C4_RepeatedMissResetsEntry ==
    /\ [][\A p \in Procs :
            (PoolStepOf(p) /\ ~loc[p].is_correct /\ Active(wrongPool, Q(p)) # {})
            => /\ Keys(wrongPool') = Keys(wrongPool)
               /\ \A e \in Active(wrongPool, Q(p)) :
                     \E e2 \in wrongPool' :
                        /\ e2.timestamp = e.timestamp
                        /\ e2.questionId = Q(p)
                        /\ e2.remainingTries = 2]_vars
    /\ [](\A p \in Procs :
            (pc[p] = "done" /\ result[p].raised = None /\ ~result[p].correct)
            => result[p].next_action = "RETRY_SAME_QUESTION")

\* p has made its conditional write
Wrote(p) == pc[p] \in {"calc_progress", "done"} /\ loc[p].success # None

\* C5: of two submissions that read the same version exactly one write is
\* accepted, and the stored cursor equals the number of accepted advances
C5_CursorCountsAdvances ==
    /\ \A p1, p2 \in Procs :
          (p1 # p2 /\ Wrote(p1) /\ Wrote(p2)
             /\ loc[p1].current_version = loc[p2].current_version)
          => (loc[p1].success = "True") # (loc[p2].success = "True")
    /\ session.version = advances
    /\ Cursor(session) = advances

\* C6: when no call is in flight, the number of NEXT_QUESTION results
\* returned equals the increase of the stored cursor
C6_NextQuestionsEqualCursor ==
    AllIdle => nextCount = Cursor(session) - Cursor(CreatedSessionItem)

\* C7: no step of a call graded incorrect changes the session's cursor,
\* answered ids or correct count
C7_RetryLeavesSession ==
    [][\A p \in Procs :
          WrongCallStepOf(p)
          => /\ Cursor(session') = Cursor(session)
             /\ AnsweredIds(session') = AnsweredIds(session)
             /\ CorrectCount(session') = CorrectCount(session)]_vars

\* a retry has been returned on a session that had already been advanced
C7_Witness ==
    \E p \in Procs :
        /\ pc[p] = "done"
        /\ result[p].next_action = "RETRY_SAME_QUESTION"
        /\ Cursor(session) = 1

\* C8: when no call is in flight, answered_ids has as many elements as the
\* cursor says
C8_AnsweredMatchesCursor ==
    AllIdle => Len(AnsweredIds(session)) = Cursor(session)

\* the same question has been submitted correctly twice and both calls
\* advanced the session
C8_Witness ==
    /\ AllIdle
    /\ advances = 2
    /\ args[1] # NoItem
    /\ args[2] # NoItem
    /\ args[1].question_id = args[2].question_id

\* C9: a re-submission of the same request creates no second wrong-pool
\* entry, and the two calls together advance the cursor at most once
C9_ResubmitIdempotent ==
    \A p \in Procs :
        (pc[p] = "done" /\ loc[p].resubmit)
        => /\ ~(prev[p].added # -1 /\ loc[p].added # -1 /\ loc[p].added # prev[p].added)
           /\ ~(prev[p].advanced /\ loc[p].advanced)

\* C10: a correct answer whose session advance was rejected ends in a
\* failure for the caller, not in NEXT_QUESTION
C10_ConflictSurfaces ==
    \A p \in Procs :
        (pc[p] = "done" /\ loc[p].is_correct /\ loc[p].success # "True")
        => /\ result[p].raised # None
           /\ result[p].next_action # "NEXT_QUESTION"

\* C12: a conditional update whose version predicate fails raises
\* OptimisticLockError, and the client's update_session_progress_atomic
\* turns that conflict into the return value False
C12_ConflictIsDedicated ==
    \A p \in Procs :
        (pc[p] = "session_write"
           /\ ConditionalCheck(session, loc[p].current_version) # "OK")
        => /\ conditional_update(session, loc[p].current_version).raised
                 = "OptimisticLockError"
           /\ update_session_progress_atomic(session, loc[p].current_version)
                 = [value |-> FALSE, raised |-> None]

MaxOps == 3

\* the depth at which Python's RecursionError stops nested get_session calls
RecursionLimit == 2

ServiceOps == {"get_session", "start_session", "pause_session", "complete_session"}

max_retries == 3

Frame(fn, at, status, guarded) ==
    [fn |-> fn, at |-> at, status |-> status, guarded |-> guarded,
     attempt |-> 0, conflicts |-> 0, snap |-> NoValue]

GetFrame == Frame("get_session", "get_item", None, FALSE)

\* update_session_progress_atomic writing the given status; guarded when it
\* is called through _update_session_status, which turns exceptions to False
UpdateFrame(status, guarded) ==
    Frame("update_session_progress_atomic", "get_session", status, guarded)

Pop(stack) == SubSeq(stack, 1, Len(stack) - 1)

Top(stack) == stack[Len(stack)]

Depth(stack) ==
    Cardinality({i \in 1..Len(stack) : stack[i].fn = "get_session"})

\* _is_session_expired, lines 474-480: only the clock is consulted
_is_session_expired(session_state) == expired

\* what an operation does with the SessionState its get_session returned:
\* start_session 263-272, pause_session 291-301, complete_session 320-336
AfterGet(frame, value) ==
    CASE frame.fn = "start_session" ->
           IF value.status \notin {"CREATED", "PAUSED"}
           THEN [raise |-> TRUE, return |-> FALSE, push |-> <<>>]
           ELSE [raise |-> FALSE, return |-> FALSE,
                 push |-> <<UpdateFrame("ACTIVE", TRUE), GetFrame>>]
      [] frame.fn = "pause_session" ->
           IF value.status # "ACTIVE"
           THEN [raise |-> TRUE, return |-> FALSE, push |-> <<>>]
           ELSE [raise |-> FALSE, return |-> FALSE,
                 push |-> <<UpdateFrame("PAUSED", TRUE), GetFrame>>]
      [] OTHER ->
           IF value.status = "COMPLETED"
           THEN [raise |-> FALSE, return |-> TRUE, push |-> <<>>]
           ELSE [raise |-> FALSE, return |-> FALSE,
                 push |-> <<UpdateFrame("COMPLETED", FALSE), GetFrame>>]

\* the status an operation reports once its update returned True
StatusAfter(fn) ==
    CASE fn = "start_session" -> "ACTIVE"
      [] fn = "pause_session" -> "PAUSED"
      [] OTHER -> "COMPLETED"

\* the two handlers of GET /sessions/{sessionId}/question
HandlerOps == {"next_question_handler", "get_current_question"}

CompleteFrames == <<Frame("complete_session", "get_session", None, FALSE), GetFrame>>

\* what a handler does with the SessionState its get_session returned:
\* quiz.py lines 50-57, quiz_handler.py lines 46-66
HandlerAfterGet(frame, value) ==
    IF frame.fn = "next_question_handler"
    THEN IF value.status \notin {"ACTIVE", "CREATED"}
         THEN [code |-> "SESSION_NOT_ACTIVE", at |-> None, push |-> <<>>]
         ELSE [code |-> None, at |-> "get_next_question", push |-> <<>>]
    ELSE IF value.status \notin {"ACTIVE", "PAUSED"}
         THEN [code |-> "INVALID_SESSION_STATUS", at |-> None, push |-> <<>>]
         ELSE IF value.cursor >= Len(session.questionPool)
         THEN [code |-> None, at |-> "complete_session", push |-> CompleteFrames]
         ELSE [code |-> None, at |-> "get_next_question", push |-> <<>>]

\* a callee hands value to the frame on top of stack; the caller runs on to
\* its next store call, or returns in turn
RECURSIVE Resume(_, _)
Resume(stack, value) ==
    IF stack = <<>>
    THEN [stk |-> <<>>, val |-> value]
    ELSE
      LET f == Top(stack) IN
      CASE f.fn = "update_session_progress_atomic" ->
             \* line 193: current_session = self.get_session(...)
             [stk |-> Pop(stack) \o
                      <<[f EXCEPT !.at = "conditional_update", !.snap = value]>>,
              val |-> NoValue]
        [] f.fn = "get_session" ->
             \* lines 171-174: whatever _update_session_status returned, the
             \* state handed back carries EXPIRED
             Resume(Pop(stack),
                    [f.snap EXCEPT !.status = "EXPIRED", !.lapsed = TRUE])
        [] f.fn \in HandlerOps ->
             IF f.at = "get_session"
             THEN LET next == HandlerAfterGet(f, value) IN
                  IF next.code # None
                  THEN Resume(Pop(stack),
                              ResponseValue(next.code, value.status, None))
                  ELSE [stk |-> Pop(stack) \o
                                <<[f EXCEPT !.at = next.at, !.snap = value]>> \o
                                next.push,
                        val |-> NoValue]
             ELSE \* complete_session has returned or raised
                  Resume(Pop(stack),
                         ResponseValue(IF value.kind = "raise"
                                       THEN "SESSION_ERROR"
                                       ELSE "sessionComplete",
                                       f.snap.status, None))
        [] OTHER ->
             IF f.at = "get_session"
             THEN LET next == AfterGet(f, value) IN
                  IF next.raise
                  THEN Resume(Pop(stack), RaiseValue("SessionError"))
                  ELSE IF next.return
                  THEN Resume(Pop(stack), value)
                  ELSE [stk |-> Pop(stack) \o
                                <<[f EXCEPT !.at = "update", !.snap = value]>> \o
                                next.push,
                        val |-> NoValue]
             ELSE IF value.kind = "raise"
                  THEN Resume(Pop(stack), value)
                  ELSE IF ~value.ok
                  THEN Resume(Pop(stack), RaiseValue("SessionError"))
                  ELSE Resume(Pop(stack),
                              [f.snap EXCEPT !.status = StatusAfter(f.fn)])

\* the caller's stack and outcome after Resume
Resumed(p, stack, value) ==
    LET r == Resume(stack, value) IN
    /\ stk' = [stk EXCEPT ![p] = r.stk]
    /\ sres' = [sres EXCEPT ![p].val = r.val]

\* a request reaches one of the four operations
ServiceCall(p) ==
    /\ stk[p] = <<>>
    /\ sops < MaxOps
    /\ sops' = sops + 1
    /\ \E op \in ServiceOps :
         /\ stk' = [stk EXCEPT ![p] =
                       IF op = "get_session"
                       THEN <<GetFrame>>
                       ELSE <<Frame(op, "get_session", None, FALSE), GetFrame>>]
         /\ sres' = [sres EXCEPT ![p] = [op |-> op, val |-> NoValue]]
    /\ supd' = [supd EXCEPT ![p] = NoUpdate]
    /\ UNCHANGED <<session, expired>>
    /\ UNCHANGED answerVars

\* get_session, lines 156-176: read the item, and when the session has
\* expired write EXPIRED back through _update_session_status, which enters
\* get_session again
GetSession(p) ==
    /\ stk[p] # <<>>
    /\ Top(stk[p]).fn = "get_session"
    /\ Top(stk[p]).at = "get_item"
    /\ LET f == Top(stk[p])
           state == [StateValue(session.status, session.version,
                                session.status, FALSE)
                        EXCEPT !.cursor = Cursor(session)]
       IN
       IF _is_session_expired(state)
       THEN IF Depth(stk[p]) < RecursionLimit
            THEN /\ stk' = [stk EXCEPT ![p] =
                              Pop(stk[p]) \o
                              <<[f EXCEPT !.at = "_update_session_status",
                                          !.snap = state]>> \o
                              <<UpdateFrame("EXPIRED", TRUE), GetFrame>>]
                 /\ UNCHANGED sres
            ELSE Resumed(p, Pop(stk[p]),
                         [state EXCEPT !.status = "EXPIRED", !.lapsed = TRUE])
       ELSE Resumed(p, Pop(stk[p]), state)
    /\ UNCHANGED <<session, expired, supd, sops>>
    /\ UNCHANGED answerVars

\* update_session_progress_atomic, lines 188-249: the conditional write of
\* one attempt and what the loop does with its outcome
AtomicUpdate(p) ==
    /\ stk[p] # <<>>
    /\ Top(stk[p]).fn = "update_session_progress_atomic"
    /\ Top(stk[p]).at = "conditional_update"
    /\ LET f == Top(stk[p])
           r == conditional_update(session, f.snap.version)
           conflict == ConditionalCheck(session, f.snap.version) # "OK"
           seen == f.conflicts + (IF conflict THEN 1 ELSE 0)
           done(outcome) ==
               supd' = [supd EXCEPT ![p] =
                           [attempts |-> f.attempt + 1, conflicts |-> seen,
                            outcome |-> outcome]]
       IN
       IF r.raised = None
       THEN /\ session' = [session EXCEPT !.status = f.status,
                                          !.version = @ + 1]
            /\ Resumed(p, Pop(stk[p]), BoolValue(TRUE))
            /\ done("True")
       ELSE /\ UNCHANGED session
            /\ IF r.raised = "OptimisticLockError" /\ f.attempt < max_retries - 1
               THEN /\ stk' = [stk EXCEPT ![p] =
                                 Pop(stk[p]) \o
                                 <<[f EXCEPT !.at = "get_session",
                                             !.attempt = @ + 1,
                                             !.conflicts = seen]>> \o
                                 <<GetFrame>>]
                    /\ UNCHANGED <<sres, supd>>
               ELSE /\ Resumed(p, Pop(stk[p]),
                               IF f.guarded THEN BoolValue(FALSE)
                               ELSE RaiseValue("SessionError"))
                    /\ done("SessionError")
    /\ UNCHANGED <<expired, sops>>
    /\ UNCHANGED answerVars

\* the clock passes the session's expires_at
Expire ==
    /\ ~expired
    /\ expired' = TRUE
    /\ UNCHANGED <<session, stk, sres, supd, sops>>
    /\ UNCHANGED answerVars

NextService ==
    \/ Expire
    \/ \E p \in Procs : ServiceCall(p)
    \/ \E p \in Procs : GetSession(p)
    \/ \E p \in Procs : AtomicUpdate(p)

SpecService == Init /\ [][NextService]_vars

\* C11: an atomic update that met a version conflict goes on to another
\* attempt, up to three; it fails only after the third conflict and never
\* makes more than three attempts
C11_ConflictIsRetried ==
    \A p \in Procs :
        /\ supd[p].attempts <= max_retries
        /\ (supd[p].outcome = "SessionError" /\ supd[p].conflicts > 0)
           => supd[p].conflicts = max_retries

\* C14: every change of the stored status follows the transition table
\* (the lazy write of EXPIRED over a created, active or paused session is
\* let through), and a completed session never changes status
AllowedTransitions ==
    {<<"CREATED", "ACTIVE">>, <<"CREATED", "CANCELLED">>,
     <<"ACTIVE", "PAUSED">>, <<"ACTIVE", "COMPLETED">>, <<"ACTIVE", "CANCELLED">>,
     <<"PAUSED", "ACTIVE">>, <<"PAUSED", "CANCELLED">>,
     <<"CREATED", "EXPIRED">>, <<"ACTIVE", "EXPIRED">>, <<"PAUSED", "EXPIRED">>}

C14_StatusFollowsTable ==
    [][session'.status # session.status
       => <<session.status, session'.status>> \in AllowedTransitions]_vars

\* C15: get_session on a session past its expires_at returns EXPIRED when
\* the stored status is created, active or paused, and the stored status
\* when that is completed
C15_ExpiredOnRead ==
    \A p \in Procs :
        (sres[p].op = "get_session" /\ sres[p].val.kind = "state"
           /\ sres[p].val.lapsed)
        => /\ sres[p].val.stored \in {"CREATED", "ACTIVE", "PAUSED"}
              => sres[p].val.status = "EXPIRED"
           /\ sres[p].val.stored = "COMPLETED"
              => sres[p].val.status = "COMPLETED"

(***************************************************************************)
(* AdaptiveLearningService.get_next_question.  A step is taken at the read *)
(* of the session, at the query of the wrong-answers table and at the      *)
(* write of a new answer order.  The reads of the performance metrics and  *)
(* of the catalog decide only which of the candidates scores highest, and  *)
(* every candidate is taken as a possible choice.  SpecSelect starts from  *)
(* either session layout and from a wrong-pool percentage of 0, 20 or 100. *)
(***************************************************************************)
MaxServes == 2

Percentages == {0, default_wrong_pool_percentage, 100}

\* random.random(), in percent
RandomDraws == {0, 50, 99}

\* the 'answers' list of a catalog question
answers(question_id) == <<"a", "b">>

Orderings(seq) ==
    {t \in [1..Len(seq) -> ToSet(seq)] :
        \A i, j \in 1..Len(seq) : t[i] = t[j] => i = j}

\* _shuffle_answers, lines 337-341: any order random.shuffle can produce
_shuffle_answers(seq) == Orderings(seq)

\* _is_session_complete, lines 545-552
_is_session_complete(item) ==
    ItemGet(item, "currentQuestion", 0) >= ItemGet(item, "totalQuestions", 0)

\* _should_select_from_wrong_pool, lines 152-154
_should_select_from_wrong_pool(draw, percentage) == draw < percentage

RECURSIVE SortByTimestamp(_)
SortByTimestamp(items) ==
    IF items = {}
    THEN <<>>
    ELSE LET first == CHOOSE e \in items :
                         \A f \in items : e.timestamp <= f.timestamp
         IN <<first>> \o SortByTimestamp(items \ {first})

IsActive(e) == e.remainingTries > 0

\* a query without the FilterExpression
get_wrong_answers_sorted_Unfiltered(pool, limit) ==
    LET sorted == SortByTimestamp(pool)
    IN  SubSeq(sorted, 1, IF Len(sorted) < limit THEN Len(sorted) ELSE limit)

\* get_wrong_answers_sorted, dynamodb_client.py lines 362-375: the query
\* reads the oldest 'limit' items and the filter is applied to those
get_wrong_answers_sorted(pool, limit) ==
    LET sorted == SortByTimestamp(pool)
        page == SubSeq(sorted, 1, IF Len(sorted) < limit THEN Len(sorted) ELSE limit)
    IN SelectSeq(page, IsActive)

\* _apply_spaced_repetition, lines 601-630: the entry with the highest
\* readiness score; the score depends on the wall-clock age of each entry,
\* so any of the entries read can be the one
_apply_spaced_repetition(wrong_answers) == ToSet(wrong_answers)

\* _update_wrong_answer_shuffling, lines 393-400 (entries are never deleted,
\* so the key exists)
_update_wrong_answer_shuffling(pool, timestamp, shuffled_answers) ==
    {IF e.timestamp = timestamp
     THEN [e EXCEPT !.shuffledAnswers = shuffled_answers]
     ELSE e : e \in pool}

\* the QuestionResponse of _prepare_wrong_pool_question, lines 199-208
WrongPoolResponse(wrong_answer, shuffled_answers) ==
    [kind |-> "question", question_id |-> wrong_answer.questionId,
     answers |-> shuffled_answers, is_from_wrong_pool |-> TRUE,
     timestamp |-> wrong_answer.timestamp]

\* _get_next_adaptive_question, lines 210-238: the responses it can return
\* for the session item it was given
_get_next_adaptive_question(item) ==
    LET answered_questions == ToSet(ItemGet(item, "answeredQuestions", <<>>))
        question_pool == ItemGet(item, "questionPool", <<>>)
        available_questions == ToSet(question_pool) \ answered_questions
    IN IF available_questions = {}
       THEN {NoneResponse}
       ELSE {[kind |-> "question", question_id |-> q, answers |-> answers(q),
              is_from_wrong_pool |-> FALSE, timestamp |-> -1] :
                q \in available_questions}

Presentation(response) ==
    [timestamp |-> response.timestamp, question_id |-> response.question_id,
     answers |-> response.answers]

\* get_next_question, lines 107-125, up to the wrong-pool query
GetNextQuestion(p) ==
    /\ UNCHANGED ghostVars
    /\ pc[p] = "idle"
    /\ serves < MaxServes
    /\ serves' = serves + 1
    /\ LET start == [NoNq EXCEPT !.session = session,
                                 !.cursor0 = Cursor(session),
                                 !.total0 = Len(session.questionPool),
                                 !.passed0 = ToSet(AnsweredIds(session)),
                                 !.active0 = (\E e \in wrongPool : IsActive(e))]
       IN
       IF _is_session_complete(session)
       THEN /\ nq' = [nq EXCEPT ![p] = start]
            /\ pc' = [pc EXCEPT ![p] = "nq_done"]
       ELSE \E draw \in RandomDraws :
              IF _should_select_from_wrong_pool(draw, wrong_pool_selection_percentage)
              THEN /\ nq' = [nq EXCEPT ![p] = start]
                   /\ pc' = [pc EXCEPT ![p] = "nq_wrong_pool"]
              ELSE \E response \in _get_next_adaptive_question(session) :
                     /\ nq' = [nq EXCEPT ![p] = [start EXCEPT !.out = response]]
                     /\ pc' = [pc EXCEPT ![p] = "nq_done"]
    /\ UNCHANGED <<now, wrongPool, progressTable, session, args, loc, result,
                   calls, nextCount, advances, prev>>
    /\ UNCHANGED <<wrong_pool_selection_percentage, shown, servedCount, completes>>
    /\ UNCHANGED serviceVars

\* _get_optimal_wrong_answer and _prepare_wrong_pool_question, lines 156-191
WrongPoolRead(p) ==
    /\ UNCHANGED ghostVars
    /\ pc[p] = "nq_wrong_pool"
    /\ LET wrong_answers == get_wrong_answers_sorted(wrongPool, 5) IN
       IF wrong_answers = <<>>
       THEN \E response \in _get_next_adaptive_question(nq[p].session) :
              /\ nq' = [nq EXCEPT ![p].out = response]
              /\ pc' = [pc EXCEPT ![p] = "nq_done"]
              /\ UNCHANGED shown
       ELSE \E wrong_answer \in _apply_spaced_repetition(wrong_answers) :
              IF wrong_answer.shuffledAnswers # <<>>
              THEN LET response == WrongPoolResponse(wrong_answer,
                                                     wrong_answer.shuffledAnswers)
                   IN /\ nq' = [nq EXCEPT ![p].out = response]
                      /\ pc' = [pc EXCEPT ![p] = "nq_done"]
                      /\ shown' = shown \cup {Presentation(response)}
              ELSE \E shuffled_answers \in
                        _shuffle_answers(answers(wrong_answer.questionId)) :
                     /\ nq' = [nq EXCEPT ![p].wrong_answer = wrong_answer,
                                         ![p].shuffled_answers = shuffled_answers]
                     /\ pc' = [pc EXCEPT ![p] = "nq_shuffle"]
                     /\ UNCHANGED shown
    /\ UNCHANGED <<now, wrongPool, progressTable, session, args, loc, result,
                   calls, nextCount, advances, prev>>
    /\ UNCHANGED <<wrong_pool_selection_percentage, servedCount, completes, serves>>
    /\ UNCHANGED serviceVars

\* _prepare_wrong_pool_question, lines 192-208: store the new order
ShuffleWrite(p) ==
    /\ UNCHANGED ghostVars
    /\ pc[p] = "nq_shuffle"
    /\ LET response == WrongPoolResponse(nq[p].wrong_answer, nq[p].shuffled_answers)
       IN /\ wrongPool' = _update_wrong_answer_shuffling(
                              wrongPool, nq[p].wrong_answer.timestamp,
                              nq[p].shuffled_answers)
          /\ nq' = [nq EXCEPT ![p].out = response]
          /\ shown' = StillShown(shown, wrongPool') \cup {Presentation(response)}
    /\ pc' = [pc EXCEPT ![p] = "nq_done"]
    /\ UNCHANGED <<now, progressTable, session, args, loc, result,
                   calls, nextCount, advances, prev>>
    /\ UNCHANGED <<wrong_pool_selection_percentage, servedCount, completes, serves>>
    /\ UNCHANGED serviceVars

\* the response reaches the caller
ServeReturn(p) ==
    /\ UNCHANGED ghostVars
    /\ pc[p] = "nq_done"
    /\ pc' = [pc EXCEPT ![p] = "idle"]
    /\ LET out == nq[p].out IN
       /\ completes' = (completes \/ out.kind = "None")
       /\ servedCount' =
            IF out.kind = "question" /\ ~out.is_from_wrong_pool
            THEN [servedCount EXCEPT ![out.question_id] = @ + 1]
            ELSE servedCount
    /\ nq' = [nq EXCEPT ![p] = NoNq]
    /\ UNCHANGED <<now, wrongPool, progressTable, session, args, loc, result,
                   calls, nextCount, advances, prev>>
    /\ UNCHANGED <<wrong_pool_selection_percentage, shown, serves>>
    /\ UNCHANGED serviceVars

\* the answers submitted between get_next_question calls: to a question of
\* the session's pool, with its correct choice "a" alone or with both choices
MaxAnswers == 2

AnswerInputs == {<<"a">>, <<"b", "a">>}

SubmitAnswer(p) ==
    /\ pc[p] = "idle"
    /\ calls < MaxAnswers
    /\ \E q \in ToSet(session.questionPool), sel \in AnswerInputs :
          Begin(p, [question_id |-> q, selected_answers |-> sel], FALSE)

InitSelect ==
    /\ fx = NoItem
    /\ session \in SessionItems
    /\ wrong_pool_selection_percentage \in Percentages
    /\ InitOthers

NextSelect ==
    \/ \E p \in Procs : SubmitAnswer(p)
    \/ \E p \in Procs : ProgressGet(p)
    \/ \E p \in Procs : ProgressWrite(p)
    \/ \E p \in Procs : PoolStep(p)
    \/ \E p \in Procs : SessionGet(p)
    \/ \E p \in Procs : SessionWrite(p)
    \/ \E p \in Procs : CalcProgress(p)
    \/ \E p \in Procs : Return(p)
    \/ \E p \in Procs : GetNextQuestion(p)
    \/ \E p \in Procs : WrongPoolRead(p)
    \/ \E p \in Procs : ShuffleWrite(p)
    \/ \E p \in Procs : ServeReturn(p)

SpecSelect == InitSelect /\ [][NextSelect]_vars

\* a get_next_question call of p has its response
Served(p) == pc[p] = "nq_done"

\* C16: get_next_question returns SessionComplete exactly when the cursor
\* has reached the planned total and the user has no active wrong-pool entry
C16_CompleteExactlyWhen ==
    \A p \in Procs :
        Served(p)
        => (nq[p].out.kind = "None"
              <=> (nq[p].cursor0 >= nq[p].total0 /\ ~nq[p].active0))

AllCorrect ==
    /\ wrongPool = {}
    /\ \A p \in Procs :
          pc[p] \in {"progress_get", "progress_write", "pool", "session_get",
                     "session_write", "calc_progress", "done"}
          => loc[p].is_correct

\* only questions that had been served were answered
OnlyServedAnswered ==
    /\ \A q \in CatalogIds : progressTable[q] # NoItem => servedCount[q] > 0
    /\ \A p \in Procs : pc[p] \in {"idle", "nq_wrong_pool", "nq_shuffle", "nq_done"}

\* C19: with the percentage at 0 no question comes from the wrong pool, and
\* while every answer is correct no question is served twice and
\* SessionComplete is returned only after each pool question was served once
C19_ZeroPercentage ==
    wrong_pool_selection_percentage = 0
    => /\ shown = {}
       /\ \A p \in Procs : Served(p) => ~nq[p].out.is_from_wrong_pool
       /\ (AllCorrect /\ OnlyServedAnswered)
          => /\ \A q \in CatalogIds : servedCount[q] <= 1
             /\ completes
                => \A q \in ToSet(session.questionPool) : servedCount[q] = 1

\* C20: with the percentage at 100 a question returned while the user has
\* an active entry comes from the wrong pool, and with no active entry and
\* questions left the next question comes from the regular pool
C20_FullPercentage ==
    wrong_pool_selection_percentage = 100
    => \A p \in Procs :
          Served(p)
          => /\ (nq[p].out.kind = "question" /\ nq[p].active0)
                => nq[p].out.is_from_wrong_pool
             /\ (wrongPool = {} /\ nq[p].cursor0 < nq[p].total0)
                => (nq[p].out.kind = "question" /\ ~nq[p].out.is_from_wrong_pool)

(***************************************************************************)
(* The request handlers of GET /sessions/{sessionId}/question: quiz.py     *)
(* next_question_handler and quiz_handler.py get_current_question.  They   *)
(* run on the call stack of SessionStateService; get_next_question is      *)
(* taken in one step here (its interleavings are those of SpecSelect).     *)
(***************************************************************************)
\* a next-question request reaches one of the two handlers
HandlerCall(p) ==
    /\ stk[p] = <<>>
    /\ sops < MaxOps
    /\ sops' = sops + 1
    /\ \E op \in HandlerOps :
         /\ stk' = [stk EXCEPT ![p] =
                       <<Frame(op, "get_session", None, FALSE), GetFrame>>]
         /\ sres' = [sres EXCEPT ![p] = [op |-> op, val |-> NoValue]]
    /\ supd' = [supd EXCEPT ![p] = NoUpdate]
    /\ UNCHANGED <<session, expired>>
    /\ UNCHANGED answerVars

\* the responses get_next_question can return for one value of random.random()
NextQuestionResponses(draw) ==
    LET wrong_answers == get_wrong_answers_sorted(wrongPool, 5) IN
    IF _is_session_complete(session)
    THEN {NoneResponse}
    ELSE IF /\ _should_select_from_wrong_pool(draw, wrong_pool_selection_percentage)
            /\ wrong_answers # <<>>
    THEN UNION {{WrongPoolResponse(w, order) :
                   order \in IF w.shuffledAnswers # <<>>
                             THEN {w.shuffledAnswers}
                             ELSE _shuffle_answers(answers(w.questionId))} :
                w \in _apply_spaced_repetition(wrong_answers)}
    ELSE _get_next_adaptive_question(session)

\* quiz.py lines 57-118, quiz_handler.py lines 68-108: ask the service for
\* the question and answer the request (SessionStateService has no
\* update_session, so next_question_handler ends in INTERNAL_ERROR when the
\* service reports the session complete)
HandlerQuestion(p) ==
    /\ UNCHANGED ghostVars
    /\ stk[p] # <<>>
    /\ Top(stk[p]).fn \in HandlerOps
    /\ Top(stk[p]).at = "get_next_question"
    /\ \E draw \in RandomDraws : \E out \in NextQuestionResponses(draw) :
         LET f == Top(stk[p]) IN
         /\ wrongPool' = IF out.is_from_wrong_pool
                         THEN _update_wrong_answer_shuffling(
                                  wrongPool, out.timestamp, out.answers)
                         ELSE wrongPool
         /\ shown' = IF out.is_from_wrong_pool
                     THEN StillShown(shown, wrongPool') \cup {Presentation(out)}
                     ELSE shown
         /\ IF out.kind # "None"
            THEN Resumed(p, Pop(stk[p]),
                         ResponseValue("question", f.snap.status, out.question_id))
            ELSE IF f.fn = "next_question_handler"
            THEN Resumed(p, Pop(stk[p]),
                         ResponseValue("INTERNAL_ERROR", f.snap.status, None))
            ELSE /\ stk' = [stk EXCEPT ![p] =
                              Pop(stk[p]) \o
                              <<[f EXCEPT !.at = "complete_session"]>> \o
                              CompleteFrames]
                 /\ UNCHANGED sres
    /\ UNCHANGED <<session, expired, supd, sops>>
    /\ UNCHANGED <<now, progressTable, pc, args, loc, result, calls, nextCount,
                   advances, prev, wrong_pool_selection_percentage, nq,
                   servedCount, completes, serves>>

NextRequest ==
    \/ Expire
    \/ \E p \in Procs : ServiceCall(p)
    \/ \E p \in Procs : HandlerCall(p)
    \/ \E p \in Procs : GetSession(p)
    \/ \E p \in Procs : AtomicUpdate(p)
    \/ \E p \in Procs : HandlerQuestion(p)

SpecRequest == Init /\ [][NextRequest]_vars

NotServingCodes == {"SESSION_NOT_ACTIVE", "INVALID_SESSION_STATUS"}

\* C21: a next-question request that finds the session in a status other
\* than created or active is answered with a not-serving error
C21_NotServing ==
    \A p \in Procs :
        (sres[p].op \in HandlerOps /\ sres[p].val.kind = "response"
           /\ sres[p].val.status \notin {"CREATED", "ACTIVE"})
        => sres[p].val.code \in NotServingCodes

Graded(p) ==
    /\ pc[p] \in {"progress_get", "progress_write", "pool", "session_get",
                  "session_write", "calc_progress", "done"}
    /\ args[p].question_id \in CatalogIds
    /\ args[p].selected_answers # <<>>

\* every submitted choice is a correct one and every correct choice is
\* submitted, whatever the order and the repetitions of the submission
ExactlyTheCorrectSet(question_id, selected_answers) ==
    LET correct == correctAnswers(question_id) IN
    /\ \A i \in 1..Len(selected_answers) :
          \E j \in 1..Len(correct) : selected_answers[i] = correct[j]
    /\ \A j \in 1..Len(correct) :
          \E i \in 1..Len(selected_answers) : selected_answers[i] = correct[j]

\* C24: an answer is graded correct exactly when the submitted choice ids
\* are, as a set, the question's correct set (a strict subset or superset is
\* incorrect, order and duplicates do not matter)
C24_ExactSetGrading ==
    \A p \in Procs :
        Graded(p)
        => /\ loc[p].is_correct
                <=> ExactlyTheCorrectSet(args[p].question_id, args[p].selected_answers)
           /\ (pc[p] = "done" /\ result[p].raised = None)
                => (result[p].correct <=> loc[p].is_correct)

C24_Witness ==
    \E p \in Procs :
        /\ pc[p] = "done"
        /\ result[p].raised = None
        /\ args[p] = [question_id |-> "q1", selected_answers |-> <<"a", "a">>]
        /\ result[p].correct
\* attempts of a progress row, 0 when there is no row
Attempts(row) == IF row = NoItem THEN 0 ELSE row.attempts

\* C26: the progress row of a question counts at least as many attempts as
\* process_answer calls have returned for it
C26_AttemptsCountCalls ==
    \A q \in CatalogIds : Attempts(progressTable[q]) >= doneCount[q]
\* C27: every answered question id of the session is one of its pool
C27_AnsweredWithinPool ==
    ToSet(AnsweredIds(session)) \subseteq ToSet(session.questionPool)

\* the wrong-answer count of the stored progress (no writer of an advance
\* stores one: absent reads as 0)
WrongCount(item) ==
    IF item.progress = NoItem
    THEN ItemGet(item, "wrongAnswers", 0)
    ELSE IF "wrong_answers" \in DOMAIN item.progress
    THEN item.progress.wrong_answers
    ELSE ItemGet(item.progress, "wrongAnswers", 0)

\* C28: the correct and wrong counts of the session add up to its cursor
C28_CountsAddUpToCursor ==
    CorrectCount(session) + WrongCount(session) = Cursor(session)

C28_Witness ==
    /\ advances > 0
    /\ Cursor(session) = 1
    /\ CorrectCount(session) = 1
\* --------------------------------------------------------- create_session
MaxSources == 2
MaxQuestionCount == 2
MaxTotal == 3

Categories == {"c1", "c2"}

\* question ids the questions table holds for a category
CategoryQuestions(category) ==
    IF category = "c1" THEN <<"q1", "q2">> ELSE <<"q3">>

\* list[:n]
SliceTo(list, n) ==
    LET k == IF n >= 0
             THEN (IF n < Len(list) THEN n ELSE Len(list))
             ELSE (IF Len(list) + n > 0 THEN Len(list) + n ELSE 0)
    IN  SubSeq(list, 1, k)

RECURSIVE SumCounts(_)
\* sum(source.question_count for source in sources)
SumCounts(sources) ==
    IF sources = <<>> THEN 0
    ELSE Head(sources).question_count + SumCounts(Tail(sources))

\* SessionStateService._validate_session_config: the error it raises, or None
_validate_session_config(config) ==
    IF config.name = "" THEN "ValidationError"
    ELSE IF Len(config.sources) = 0 \/ Len(config.sources) > 10 THEN "ValidationError"
    ELSE IF config.total_questions <= 0 \/ config.total_questions > 500 THEN "ValidationError"
    ELSE IF SumCounts(config.sources) # config.total_questions THEN "ValidationError"
    ELSE None

RECURSIVE _build_question_pool(_)
\* SessionStateService._build_question_pool
_build_question_pool(sources) ==
    IF sources = <<>> THEN <<>>
    ELSE SliceTo(CategoryQuestions(Head(sources).category), Head(sources).question_count)
            \o _build_question_pool(Tail(sources))

\* the item create_session puts for a question pool
NewSessionItem(question_pool) ==
    [CreatedSessionItem EXCEPT !.questionPool = question_pool]

\* a create_session that stores whatever pool it could build
create_session_Unchecked(config, put_ok) ==
    LET question_pool == _build_question_pool(config.sources) IN
    IF _validate_session_config(config) # None
    THEN [raised |-> _validate_session_config(config), put |-> {}]
    ELSE IF ~put_ok
    THEN [raised |-> "SessionError", put |-> {}]
    ELSE [raised |-> None,
          put |-> {NewSessionItem(SliceTo(question_pool, config.total_questions))}]

\* SessionStateService.create_session: what it raises and the items it puts
create_session(config, put_ok) ==
    LET question_pool == _build_question_pool(config.sources) IN
    IF _validate_session_config(config) # None
    THEN [raised |-> _validate_session_config(config), put |-> {}]
    ELSE IF Len(question_pool) < config.total_questions
    THEN [raised |-> "SessionError", put |-> {}]
    ELSE IF ~put_ok
    THEN [raised |-> "SessionError", put |-> {}]
    ELSE [raised |-> None,
          put |-> {NewSessionItem(SliceTo(question_pool, config.total_questions))}]

SessionSources ==
    UNION {[1..n -> [category : Categories, question_count : -1..MaxQuestionCount]] :
              n \in 0..MaxSources}

SessionConfigs ==
    [name : {"", "quiz"}, sources : SessionSources, total_questions : 0..MaxTotal]

InitCreate ==
    /\ fx \in [op : {"create_session"}, config : SessionConfigs,
               put_ok : BOOLEAN, table : {{}}, raised : {None}, called : {FALSE}]
    /\ session = CreatedSessionItem
    /\ wrong_pool_selection_percentage = default_wrong_pool_percentage
    /\ InitOthers

\* one create_session call on an empty sessions table
CreateSession ==
    /\ fx.op = "create_session"
    /\ ~fx.called
    /\ LET r == create_session(fx.config, fx.put_ok) IN
       fx' = [fx EXCEPT !.called = TRUE, !.raised = r.raised,
                        !.table = fx.table \cup r.put]
    /\ UNCHANGED programVars

NextCreate == CreateSession

SpecCreate == InitCreate /\ [][NextCreate]_vars

\* C29: create_session either fails and stores nothing, or stores exactly
\* one session, created, at version 0 and cursor 0, with nothing answered
\* and a question pool as long as the requested total
C29_CreateAllOrNothing ==
    (fx.op = "create_session" /\ fx.called)
    => \/ /\ fx.raised \in {"ValidationError", "SessionError"}
          /\ fx.table = {}
       \/ /\ fx.raised = None
          /\ Cardinality(fx.table) = 1
          /\ \A item \in fx.table :
                /\ item.status = "CREATED"
                /\ item.version = 0
                /\ Cursor(item) = 0
                /\ AnsweredIds(item) = <<>>
                /\ Len(item.questionPool) = fx.config.total_questions

C29_Witness ==
    /\ fx.op = "create_session"
    /\ fx.called
    /\ fx.raised = None
    /\ fx.config.total_questions = 2
    /\ Len(fx.config.sources) = 2
    /\ \E item \in fx.table : item.questionPool = <<"q1", "q3">>
\* ----------------------------------------------- get_wrong_answers_sorted
MaxTimestamp == 2
MaxLimit == 2

Users == {USER, "u2"}

\* the keys of the wrong-answers table: (userId, timestamp)
WrongAnswerKeys == Users \X (0..MaxTimestamp)

\* the wrong-answers tables: under each key no item, an item with no tries
\* left, or an item with tries left
WrongAnswerTables ==
    {{[userId |-> k[1], timestamp |-> k[2], remainingTries |-> tries[k]] :
         k \in {key \in WrongAnswerKeys : tries[key] >= 0}} :
        tries \in [WrongAnswerKeys -> {-1, 0, mastery_required_correct}]}

\* get_wrong_answers_sorted(user_id, limit) on a table of several users:
\* Key('userId').eq(user_id) selects the user's partition
WrongAnswersQuery(table, user_id, limit) ==
    get_wrong_answers_sorted({e \in table : e.userId = user_id}, limit)

InitQuery ==
    /\ fx \in [op : {"get_wrong_answers_sorted"}, table : WrongAnswerTables,
               user_id : Users, limit : 1..MaxLimit, out : {<<>>},
               called : {FALSE}]
    /\ session = CreatedSessionItem
    /\ wrong_pool_selection_percentage = default_wrong_pool_percentage
    /\ InitOthers

\* one get_wrong_answers_sorted call
QueryWrongAnswers ==
    /\ fx.op = "get_wrong_answers_sorted"
    /\ ~fx.called
    /\ fx' = [fx EXCEPT !.called = TRUE,
                        !.out = WrongAnswersQuery(fx.table, fx.user_id, fx.limit)]
    /\ UNCHANGED programVars

NextQuery == QueryWrongAnswers

SpecQuery == InitQuery /\ [][NextQuery]_vars

\* C30: get_wrong_answers_sorted returns stored entries of the asking user
\* that have tries left, oldest first, and no more than limit of them
C30_OldestActiveOfUser ==
    (fx.op = "get_wrong_answers_sorted" /\ fx.called)
    => /\ Len(fx.out) <= fx.limit
       /\ \A i \in 1..Len(fx.out) :
             /\ fx.out[i] \in fx.table
             /\ fx.out[i].userId = fx.user_id
             /\ fx.out[i].remainingTries > 0
       /\ \A i, j \in 1..Len(fx.out) :
             i < j => fx.out[i].timestamp < fx.out[j].timestamp

C30_Witness ==
    /\ fx.op = "get_wrong_answers_sorted"
    /\ fx.called
    /\ Len(fx.out) = 2
    /\ \E e \in fx.table : e.userId # fx.user_id /\ e.remainingTries > 0
    /\ \E e \in fx.table : e.userId = fx.user_id /\ e.remainingTries = 0
\* ------------------------------------------------------- session ownership
MaxVersion == 1

SessionStatuses == {"CREATED", "ACTIVE", "PAUSED", "COMPLETED", "EXPIRED"}

\* a read that looks the item up by its session id alone
get_item_BySessionId(table, key) ==
    IF \E item \in table : item.sessionId = key.sessionId
    THEN CHOOSE item \in table : item.sessionId = key.sessionId
    ELSE NoItem

\* OptimizedDynamoDBClient.get_item on the sessions table, whose key is
\* (sessionId, userId)
get_item(table, key) ==
    IF \E item \in table : item.sessionId = key.sessionId /\ item.userId = key.userId
    THEN CHOOSE item \in table : item.sessionId = key.sessionId /\ item.userId = key.userId
    ELSE NoItem

SessionKey(session_id, user_id) == [sessionId |-> session_id, userId |-> user_id]

OwnershipOps == {"get_session", "_get_session", "get_session_handler",
                 "update_session_progress_atomic"}

\* what a call hands back: the session it returns (or None), the response
\* code of a handler, the value of an update
Answer(value, code, ok) == [value |-> value, code |-> code, ok |-> ok]

\* the operations that take (session_id, user_id), on a session that has
\* not expired: what they answer and the table they leave
OwnershipCall(op, table, user_id, expected_version) ==
    LET item == get_item(table, SessionKey(SESSION, user_id)) IN
    CASE op = "get_session" ->
           [answer |-> Answer(item, None, item # NoItem), table |-> table]
      [] op = "_get_session" ->
           [answer |-> Answer(item, None, item # NoItem), table |-> table]
      [] op = "get_session_handler" ->
           IF item = NoItem
           THEN [answer |-> Answer(NoItem, "SESSION_NOT_FOUND", FALSE), table |-> table]
           ELSE [answer |-> Answer(item, "OK", TRUE), table |-> table]
      [] OTHER ->
           LET r == update_session_progress_atomic(item, expected_version) IN
           IF r.raised = None /\ r.value = TRUE
           THEN [answer |-> Answer(NoItem, None, TRUE),
                 table |-> (table \ {item}) \cup
                           {SessionAfterUpdate(item, ProgressUpdate(item, "q1", TRUE))}]
           ELSE [answer |-> Answer(NoItem, IF r.raised # None THEN r.raised ELSE None, FALSE),
                 table |-> table]

InitOwnership ==
    /\ \E owner \in Users, status \in SessionStatuses, version \in 0..MaxVersion :
          fx \in [op : OwnershipOps,
                  user_id : Users,
                  expected_version : 0..MaxVersion,
                  before : {{[CreatedSessionItem EXCEPT !.userId = owner,
                                                       !.status = status,
                                                       !.version = version]}},
                  table : {{[CreatedSessionItem EXCEPT !.userId = owner,
                                                      !.status = status,
                                                      !.version = version]}},
                  answer : {Answer(NoItem, None, FALSE)},
                  called : {FALSE}]
    /\ session = CreatedSessionItem
    /\ wrong_pool_selection_percentage = default_wrong_pool_percentage
    /\ InitOthers

\* one call with (SESSION, user_id)
OwnershipRequest ==
    /\ fx.op \in OwnershipOps
    /\ ~fx.called
    /\ LET r == OwnershipCall(fx.op, fx.table, fx.user_id, fx.expected_version) IN
       fx' = [fx EXCEPT !.called = TRUE, !.answer = r.answer, !.table = r.table]
    /\ UNCHANGED programVars

NextOwnership == OwnershipRequest

SpecOwnership == InitOwnership /\ [][NextOwnership]_vars

\* the call was made with a user id other than the stored session's
Foreign ==
    /\ fx.op \in OwnershipOps
    /\ fx.called
    /\ \A item \in fx.before : item.userId # fx.user_id

\* C25: a call made with another user's id returns no session, leaves the
\* stored session as it was, and is answered as session not found
C25_ForeignUserFindsNothing ==
    Foreign
    => /\ fx.table = fx.before
       /\ fx.answer.value = NoItem
       /\ ~fx.answer.ok
       /\ fx.op = "get_session_handler" => fx.answer.code = "SESSION_NOT_FOUND"

C25_Witness ==
    /\ Foreign
    /\ fx.op = "get_session_handler"
    /\ fx.answer.code = "SESSION_NOT_FOUND"
    /\ \E item \in fx.before : item.status = "ACTIVE" /\ item.userId = USER
\* ------------------------------------------------ _apply_spaced_repetition
MaxCandidates == 3

\* self.spaced_repetition_intervals, in hours
spaced_repetition_intervals == <<1, 4, 24, 72, 168>>

\* scores are kept as integers: a score of 1.0 is ScoreUnit (every interval
\* divides it, and so does the 0.5 of the performance adjustment)
ScoreUnit == 1008

\* current_time of the call, in hours
CurrentHour == 30

\* list[i] of Python for an index that may be negative
PyIndex(list, i) == IF i >= 0 THEN list[i + 1] ELSE list[Len(list) + i + 1]

Min2(a, b) == IF a < b THEN a ELSE b

\* final_score of one entry, lines 609-625; success_rate_pct is
\* performance['success_rate'] in percent
final_score(wrong_answer, success_rate_pct, current_time) ==
    LET time_since_last == current_time - wrong_answer.lastAttemptAt
        attempt_count == Len(wrong_answer.attempts)
        expected_interval ==
            PyIndex(spaced_repetition_intervals,
                    Min2(attempt_count - 1, Len(spaced_repetition_intervals) - 1))
        readiness_score ==
            Min2((time_since_last * ScoreUnit) \div expected_interval, 2 * ScoreUnit)
        performance_adjustment == ((100 - success_rate_pct) * ScoreUnit) \div 200
    IN  readiness_score + performance_adjustment

\* insert one (entry, score) pair behind the pairs whose score is not lower
InsertScored(pair, sorted) ==
    LET before == SelectSeq(sorted, LAMBDA x : x[2] >= pair[2])
        after == SelectSeq(sorted, LAMBDA x : x[2] < pair[2])
    IN  before \o <<pair>> \o after

RECURSIVE SortScored(_, _)
\* scored_questions.sort(key=score, reverse=True): stable, highest first
SortScored(scored, sorted) ==
    IF scored = <<>> THEN sorted
    ELSE SortScored(Tail(scored), InsertScored(Head(scored), sorted))

\* a selection that returns the entry the sort puts last
SpacedRepetitionChoice_Last(wrong_answers, success_rate_pct, current_time) ==
    IF wrong_answers = <<>> THEN NoItem
    ELSE LET scored_questions ==
                 [i \in 1..Len(wrong_answers) |->
                     <<wrong_answers[i],
                       final_score(wrong_answers[i], success_rate_pct, current_time)>>]
             sorted == SortScored(scored_questions, <<>>)
         IN  sorted[Len(sorted)][1]

\* AdaptiveLearningService._apply_spaced_repetition at a given current_time
SpacedRepetitionChoice(wrong_answers, success_rate_pct, current_time) ==
    IF wrong_answers = <<>> THEN NoItem
    ELSE LET scored_questions ==
                 [i \in 1..Len(wrong_answers) |->
                     <<wrong_answers[i],
                       final_score(wrong_answers[i], success_rate_pct, current_time)>>]
         IN  SortScored(scored_questions, <<>>)[1][1]

\* hours at which an entry can have been attempted last
LastAttemptHours == {0, 22, 28, 29}

\* the entries get_wrong_answers_sorted can hand over at position i of its
\* result (ascending timestamps)
CandidateAt(i) ==
    {[timestamp |-> i - 1, lastAttemptAt |-> h,
      attempts |-> [k \in 1..n |-> [correct |-> FALSE]]] :
        h \in LastAttemptHours, n \in 1..2}

CandidateLists ==
    UNION {{list \in [1..n -> UNION {CandidateAt(i) : i \in 1..n}] :
               \A i \in 1..n : list[i] \in CandidateAt(i)} :
           n \in 0..MaxCandidates}

InitRepetition ==
    /\ fx \in [op : {"_apply_spaced_repetition"}, wrong_answers : CandidateLists,
               success_rate : {0, 50, 100}, out : {NoItem}, called : {FALSE}]
    /\ session = CreatedSessionItem
    /\ wrong_pool_selection_percentage = default_wrong_pool_percentage
    /\ InitOthers

\* one _apply_spaced_repetition call
ApplySpacedRepetition ==
    /\ fx.op = "_apply_spaced_repetition"
    /\ ~fx.called
    /\ fx' = [fx EXCEPT !.called = TRUE,
                        !.out = SpacedRepetitionChoice(fx.wrong_answers, fx.success_rate,
                                                       CurrentHour)]
    /\ UNCHANGED programVars

NextRepetition == ApplySpacedRepetition

SpecRepetition == InitRepetition /\ [][NextRepetition]_vars

\* the readiness of an entry of the call
Readiness(e) == final_score(e, fx.success_rate, CurrentHour)

\* C31: the selected entry is a candidate of maximal readiness, and the
\* oldest of the candidates that share that readiness
C31_MostReadyOldestFirst ==
    (fx.op = "_apply_spaced_repetition" /\ fx.called /\ fx.wrong_answers # <<>>)
    => /\ \E i \in 1..Len(fx.wrong_answers) : fx.wrong_answers[i] = fx.out
       /\ \A i \in 1..Len(fx.wrong_answers) :
             LET e == fx.wrong_answers[i] IN
             /\ Readiness(e) <= Readiness(fx.out)
             /\ Readiness(e) = Readiness(fx.out) => fx.out.timestamp <= e.timestamp

C31_Witness ==
    /\ fx.op = "_apply_spaced_repetition"
    /\ fx.called
    /\ Len(fx.wrong_answers) = 3
    /\ fx.out = fx.wrong_answers[2]
    /\ Readiness(fx.wrong_answers[3]) = Readiness(fx.out)
    /\ Readiness(fx.wrong_answers[1]) < Readiness(fx.out)
\* -------------------------------------------- _calculate_target_difficulty
\* difficulties and success rates are in thousandths
difficulty_adjustment_factor == 150
target_success_rate == 750
min_difficulty == 100
max_difficulty == 1000

Max2(a, b) == IF a > b THEN a ELSE b

\* AdaptiveLearningService._calculate_target_difficulty
_calculate_target_difficulty(performance) ==
    LET success_rate == performance.success_rate
        current_difficulty == performance.difficulty_level
    IN  IF success_rate > target_success_rate + 100
        THEN Min2(current_difficulty + difficulty_adjustment_factor, max_difficulty)
        ELSE IF success_rate < target_success_rate - 100
        THEN Max2(current_difficulty - difficulty_adjustment_factor, min_difficulty)
        ELSE current_difficulty

\* success rates over a window of ten answers, and the values next to the
\* two thresholds
SuccessRates == {0, 500, 600, 649, 650, 651, 700, 800, 849, 850, 851, 900, 1000}

\* difficulty levels from min_difficulty to max_difficulty in steps of 0.025
DifficultyLevels == {100 + 25 * k : k \in 0..36}

InitDifficulty ==
    /\ fx \in [op : {"_calculate_target_difficulty"},
               performance : [success_rate : SuccessRates,
                              difficulty_level : DifficultyLevels],
               out : {0}, called : {FALSE}]
    /\ session = CreatedSessionItem
    /\ wrong_pool_selection_percentage = default_wrong_pool_percentage
    /\ InitOthers

\* one _calculate_target_difficulty call
CalculateTargetDifficulty ==
    /\ fx.op = "_calculate_target_difficulty"
    /\ ~fx.called
    /\ fx' = [fx EXCEPT !.called = TRUE,
                        !.out = _calculate_target_difficulty(fx.performance)]
    /\ UNCHANGED programVars

NextDifficulty == CalculateTargetDifficulty

SpecDifficulty == InitDifficulty /\ [][NextDifficulty]_vars

\* C32: the target moves up by 0.15 (at most to 1.0) when the success rate
\* exceeds 0.85, down by 0.075 (at least to 0.1) when it is below 0.65, and
\* stays otherwise
C32_TargetUpdate ==
    (fx.op = "_calculate_target_difficulty" /\ fx.called)
    => LET s == fx.performance.success_rate
           t == fx.performance.difficulty_level
       IN  fx.out = IF s > 850 THEN Min2(1000, t + 150)
                    ELSE IF s < 650 THEN Max2(100, t - 75)
                    ELSE t
\* ----------------------------------------------- exponential_backoff_retry
MaxRetryBudget == 3

\* what one invocation of the operation can end in: success or the code of
\* a ClientError
InvocationOutcomes ==
    {"OK", "ConditionalCheckFailedException", "ValidationException"} \cup ThrottlingCodes

InitBackoff ==
    /\ fx \in [op : {"exponential_backoff_retry"},
               outcomes : [1..(MaxRetryBudget + 1) -> InvocationOutcomes],
               max_retries : 0..MaxRetryBudget,
               out : {[raised |-> None, invocations |-> 0]},
               called : {FALSE}]
    /\ session = CreatedSessionItem
    /\ wrong_pool_selection_percentage = default_wrong_pool_percentage
    /\ InitOthers

\* one exponential_backoff_retry call
BackoffRetry ==
    /\ fx.op = "exponential_backoff_retry"
    /\ ~fx.called
    /\ fx' = [fx EXCEPT !.called = TRUE,
                        !.out = exponential_backoff_retry(fx.outcomes, fx.max_retries)]
    /\ UNCHANGED programVars

NextBackoff == BackoffRetry

SpecBackoff == InitBackoff /\ [][NextBackoff]_vars

\* what the caller sees raised for a validation or constraint failure
ConstraintFailures ==
    {exponential_backoff_retry(<<code>>, 0).raised :
        code \in {"ConditionalCheckFailedException", "ValidationException"}}

\* C33: at most max_retries + 1 invocations, a retry only after a throttling
\* error, a raise right at the first other client error, and after the last
\* throttled attempt a failure of a kind no validation or constraint
\* failure has
C33_BoundedTypedRetry ==
    (fx.op = "exponential_backoff_retry" /\ fx.called)
    => LET n == fx.out.invocations IN
       /\ n >= 1
       /\ n <= fx.max_retries + 1
       /\ \A i \in 1..(n - 1) : fx.outcomes[i] \in ThrottlingCodes
       /\ fx.outcomes[n] = "OK" <=> fx.out.raised = None
       /\ (n <= fx.max_retries /\ fx.out.raised # None)
             => fx.outcomes[n] \notin ThrottlingCodes
       /\ (n = fx.max_retries + 1 /\ fx.outcomes[n] \in ThrottlingCodes)
             => fx.out.raised \notin ConstraintFailures
\* C34: an incorrect answer to a question that has an active entry adds one
\* record to that entry's attempts and replaces its frozen answer order
C34_RepeatedMissRefreezes ==
    [][\A p \in Procs :
          (PoolStepOf(p) /\ ~loc[p].is_correct /\ Active(wrongPool, Q(p)) # {})
          => \A e \in Active(wrongPool, Q(p)) :
                \E e2 \in wrongPool' :
                   /\ e2.timestamp = e.timestamp
                   /\ Len(e2.attempts) = Len(e.attempts) + 1
                   /\ e.shuffledAnswers # <<>>
                         => e2.shuffledAnswers # e.shuffledAnswers]_vars
\* ------------------------------------------- answers to a pooled question
\* the entry one incorrect answer to q1 has left in the wrong pool
PooledEntry == WrongAnswerItem("q1", SESSION, 0)

\* the state after one process_answer(q1) that was graded incorrect
InitMastery ==
    /\ fx = NoItem
    /\ session = CreatedSessionItem
    /\ wrong_pool_selection_percentage = default_wrong_pool_percentage
    /\ doneCount = [q \in QuestionIds |-> IF q = "q1" THEN 1 ELSE 0]
    /\ now = 0
    /\ wrongPool = {PooledEntry}
    /\ progressTable = [q \in QuestionIds |->
                           IF q = "q1" THEN NewProgressItem(FALSE) ELSE NoItem]
    /\ nq = [p \in Procs |-> NoNq]
    /\ shown = {}
    /\ servedCount = [q \in CatalogIds |-> 0]
    /\ completes = FALSE
    /\ serves = 0
    /\ pc = [p \in Procs |-> "idle"]
    /\ args = [p \in Procs |-> NoItem]
    /\ loc = [p \in Procs |-> NoLoc]
    /\ result = [p \in Procs |-> NoResult]
    /\ calls = 0
    /\ nextCount = 0
    /\ advances = 0
    /\ prev = [p \in Procs |-> NoPrev]
    /\ expired = FALSE
    /\ stk = [p \in Procs |-> <<>>]
    /\ sres = [p \in Procs |-> NoOutcome]
    /\ supd = [p \in Procs |-> NoUpdate]
    /\ sops = 0

SpecMastery == InitMastery /\ [][Next]_vars

\* C35: once two correct answers to the pooled question have been processed,
\* concurrently or not, its entry is inactive or evicted; and remainingTries
\* is always within 0..mastery_required_correct
C35_BothDecrementsCount ==
    /\ \A e \in wrongPool : e.remainingTries \in 0..mastery_required_correct
    /\ (\A p \in Procs :
           /\ pc[p] = "done"
           /\ result[p].raised = None
           /\ result[p].correct
           /\ Q(p) = PooledEntry.questionId)
       => \A e \in wrongPool :
             e.timestamp = PooledEntry.timestamp => e.remainingTries = 0
\* the EXPIRED write-backs that are in progress on a call stack
WriteBacks(stack) ==
    {i \in 1..Len(stack) : /\ stack[i].fn = "update_session_progress_atomic"
                           /\ stack[i].status = "EXPIRED"}

\* C36: a get_session that finds the session expired ends by itself: its
\* write-back enters update_session_progress_atomic at most max_retries
\* times, and the get_session calls nested in the write-back never run up
\* to the depth at which the interpreter stops the recursion
C36_ExpiryHandlingEnds ==
    \A p \in Procs :
        /\ Cardinality(WriteBacks(stk[p])) <= max_retries
        /\ ~(/\ stk[p] # <<>>
             /\ Top(stk[p]) = GetFrame
             /\ _is_session_expired(session)
             /\ Depth(stk[p]) >= RecursionLimit)
\* --------------------------------- answers while the session is completed
\* the session after start_session
ActiveSessionItem == [CreatedSessionItem EXCEPT !.status = "ACTIVE", !.version = 1]

InitFinish ==
    /\ fx = NoItem
    /\ session = ActiveSessionItem
    /\ wrong_pool_selection_percentage = default_wrong_pool_percentage
    /\ InitOthers

\* quiz_handler.submit_answer, lines 150-161: the request is passed on to
\* process_answer when the session it reads is active
SubmitAnswerRequest(p) ==
    /\ stk[p] = <<>>
    /\ session.status = "ACTIVE"
    /\ SubmitAnswer(p)

\* a request reaches complete_session
CompleteCall(p) ==
    /\ pc[p] = "idle"
    /\ stk[p] = <<>>
    /\ sops < MaxOps
    /\ sops' = sops + 1
    /\ stk' = [stk EXCEPT ![p] = CompleteFrames]
    /\ sres' = [sres EXCEPT ![p] = [op |-> "complete_session", val |-> NoValue]]
    /\ supd' = [supd EXCEPT ![p] = NoUpdate]
    /\ UNCHANGED <<session, expired>>
    /\ UNCHANGED answerVars

NextFinish ==
    \/ \E p \in Procs : SubmitAnswerRequest(p)
    \/ \E p \in Procs : ProgressGet(p)
    \/ \E p \in Procs : ProgressWrite(p)
    \/ \E p \in Procs : PoolStep(p)
    \/ \E p \in Procs : SessionGet(p)
    \/ \E p \in Procs : SessionWrite(p)
    \/ \E p \in Procs : CalcProgress(p)
    \/ \E p \in Procs : Return(p)
    \/ \E p \in Procs : CompleteCall(p)
    \/ \E p \in Procs : GetSession(p)
    \/ \E p \in Procs : AtomicUpdate(p)

SpecFinish == InitFinish /\ [][NextFinish]_vars

\* C37: while the stored status is completed, no step changes the stored
\* cursor, answered ids or correct count
C37_CompletedIsFrozen ==
    [][session.status = "COMPLETED"
         => /\ Cursor(session') = Cursor(session)
            /\ AnsweredIds(session') = AnsweredIds(session)
            /\ CorrectCount(session') = CorrectCount(session)]_vars
\* ------------------------------------------------- the tallies of a row
\* C38: every stored progress row has attempts = correctAttempts +
\* incorrectAttempts
C38_AttemptsAreTheTallies ==
    \A q \in QuestionIds :
        progressTable[q] # NoItem
            => progressTable[q].attempts
                 = progressTable[q].correctAttempts
                     + progressTable[q].incorrectAttempts

\* two calls for the same question are in flight, both have written the
\* row, one as a correct and one as a wrong answer
C38_Witness ==
    /\ pc[1] = "pool"
    /\ pc[2] = "pool"
    /\ args[1].question_id = args[2].question_id
    /\ loc[1].is_correct # loc[2].is_correct
    /\ progressTable[args[1].question_id].attempts >= 2
\* ------------------------------------------------------- CircuitBreaker
MaxThreshold == 3
MaxTimeout == 2
MaxBreakerTime == 5
MaxBreakerCalls == 5

\* what the wrapped operation does when it is invoked: it returns, raises an
\* instance of expected_exception, or raises anything else
OperationOutcomes == {"success", "failure", "other"}

\* CircuitBreaker.__init__, lines 38-44
CircuitBreaker(failure_threshold, recovery_timeout) ==
    [failure_threshold |-> failure_threshold,
     recovery_timeout |-> recovery_timeout,
     failure_count |-> 0,
     last_failure_time |-> None,
     state |-> "CLOSED"]

\* a success that closes the breaker and keeps the count
_on_success_KeepCount(self) ==
    [self EXCEPT !.state = "CLOSED"]

\* CircuitBreaker._on_success, lines 63-65
_on_success(self) ==
    [self EXCEPT !.failure_count = 0, !.state = "CLOSED"]

\* a failure that opens the breaker one failure late
_on_failure_Late(self, time) ==
    [self EXCEPT !.failure_count = @ + 1,
                 !.last_failure_time = time,
                 !.state = IF self.failure_count + 1 > self.failure_threshold
                           THEN "OPEN" ELSE @]

\* CircuitBreaker._on_failure, lines 67-71
_on_failure(self, time) ==
    [self EXCEPT !.failure_count = @ + 1,
                 !.last_failure_time = time,
                 !.state = IF self.failure_count + 1 >= self.failure_threshold
                           THEN "OPEN" ELSE @]

\* the test of line 50 on an OPEN breaker
RecoveryElapsed(self, time) ==
    time - self.last_failure_time > self.recovery_timeout

\* CircuitBreaker.__call__.wrapper, lines 48-60: the breaker after the call,
\* what the call raised, and the state in which the operation was invoked
wrapper(self, time, outcome) ==
    IF self.state = "OPEN" /\ ~RecoveryElapsed(self, time)
    THEN [self |-> self, raised |-> "CircuitBreakerError", invoked_in |-> None]
    ELSE LET entered == IF self.state = "OPEN"
                        THEN [self EXCEPT !.state = "HALF_OPEN"]
                        ELSE self
         IN  CASE outcome = "success" ->
                    [self |-> _on_success(entered), raised |-> None,
                     invoked_in |-> entered.state]
               [] outcome = "failure" ->
                    [self |-> _on_failure(entered, time),
                     raised |-> "expected_exception",
                     invoked_in |-> entered.state]
               [] OTHER ->
                    [self |-> entered, raised |-> "other",
                     invoked_in |-> entered.state]

InitBreaker ==
    /\ fx \in [op : {"CircuitBreaker"},
               self : {CircuitBreaker(n, t) : n \in 1..MaxThreshold,
                                              t \in 1..MaxTimeout},
               time : {0},
               calls : {0},
               invocations : {0},
               streak : {0},
               raised : {None},
               invoked_in : {None}]
    /\ session = CreatedSessionItem
    /\ wrong_pool_selection_percentage = default_wrong_pool_percentage
    /\ InitOthers

\* one call of the wrapped operation; calls, invocations and streak (the
\* failures since the last success) are bookkeeping of the model
BreakerCall ==
    /\ fx.op = "CircuitBreaker"
    /\ fx.calls < MaxBreakerCalls
    /\ \E outcome \in OperationOutcomes :
          LET r == wrapper(fx.self, fx.time, outcome) IN
          fx' = [fx EXCEPT
                   !.self = r.self,
                   !.raised = r.raised,
                   !.invoked_in = r.invoked_in,
                   !.calls = @ + 1,
                   !.invocations = IF r.invoked_in = None THEN @ ELSE @ + 1,
                   !.streak = CASE r.raised = None -> 0
                                [] r.raised = "expected_exception" -> @ + 1
                                [] OTHER -> @]
    /\ UNCHANGED programVars

\* time.time() moves on between two calls
BreakerTimePasses ==
    /\ fx.op = "CircuitBreaker"
    /\ fx.time < MaxBreakerTime
    /\ fx' = [fx EXCEPT !.time = @ + 1]
    /\ UNCHANGED programVars

NextBreaker ==
    \/ BreakerCall
    \/ BreakerTimePasses

SpecBreaker == InitBreaker /\ [][NextBreaker]_vars

\* a step that is one call on the breaker
IsBreakerCall == fx'.calls = fx.calls + 1

\* C39: a CLOSED breaker opens in a call exactly when that call is the
\* failure that makes failure_threshold failures in a row, and a call on an
\* OPEN breaker whose recovery_timeout has not elapsed raises
\* CircuitBreakerError, does not invoke the operation and leaves the breaker
\* as it is
C39_OpensAtThreshold ==
    [][IsBreakerCall =>
         /\ fx.self.state = "CLOSED"
               => (fx'.self.state = "OPEN"
                     <=> /\ fx'.raised = "expected_exception"
                         /\ fx'.streak = fx.self.failure_threshold
                         /\ fx'.self.failure_count = fx.self.failure_threshold)
         /\ (fx.self.state = "OPEN" /\ ~RecoveryElapsed(fx.self, fx.time))
               => /\ fx'.raised = "CircuitBreakerError"
                  /\ fx'.invocations = fx.invocations
                  /\ fx'.self = fx.self]_vars

\* a breaker opened by two failures in a row has rejected a call
C39_Witness ==
    /\ fx.op = "CircuitBreaker"
    /\ fx.self.state = "OPEN"
    /\ fx.self.failure_threshold = 2
    /\ fx.streak = 2
    /\ fx.raised = "CircuitBreakerError"

\* C40: a call on an OPEN breaker whose recovery_timeout has elapsed invokes
\* the operation in HALF_OPEN; a success there leaves the breaker CLOSED with
\* failure_count 0, a failure leaves it OPEN with its recovery_timeout not
\* elapsed, and the call that follows such a failure at once is rejected
C40_HalfOpenProbe ==
    [][IsBreakerCall =>
         /\ (fx.self.state = "OPEN" /\ RecoveryElapsed(fx.self, fx.time))
               => /\ fx'.invoked_in = "HALF_OPEN"
                  /\ fx'.invocations = fx.invocations + 1
                  /\ fx'.raised = None
                        => /\ fx'.self.state = "CLOSED"
                           /\ fx'.self.failure_count = 0
                  /\ fx'.raised = "expected_exception"
                        => /\ fx'.self.state = "OPEN"
                           /\ ~RecoveryElapsed(fx'.self, fx'.time)
         /\ (/\ fx.invoked_in = "HALF_OPEN"
             /\ fx.raised = "expected_exception"
             /\ fx.self.state = "OPEN"
             /\ ~RecoveryElapsed(fx.self, fx.time))
               => /\ fx'.raised = "CircuitBreakerError"
                  /\ fx'.invocations = fx.invocations]_vars

\* the probe of a recovered breaker has succeeded
C40_Witness ==
    /\ fx.op = "CircuitBreaker"
    /\ fx.invoked_in = "HALF_OPEN"
    /\ fx.raised = None
    /\ fx.self.state = "CLOSED"
    /\ fx.self.failure_count = 0
====
